---------------------------- MODULE Spec2Model ----------------------------
(***************************************************************************)
(* The FIR-delay OLS fragment of the encoding-model tutorial               *)
(* (we-word-embeddings-huth/1_tikhonov_tutorial.ipynb).                    *)
(*                                                                         *)
(* Every notebook cell that computes something is one action; the kernel's *)
(* variables are the state.  Matrices are sequences of rows.  Real numbers *)
(* are exact rationals <<n, d>> in lowest terms with d > 0, so "within     *)
(* tolerance" in the tutorial is exact equality here; floating-point       *)
(* rounding is outside this model.                                         *)
(***************************************************************************)
EXTENDS Integers, Sequences, FiniteSets, TLC

VARIABLES
    pc,                     \* the last cell that ran ("error": it raised)
    err,                    \* the exception the failing cell raised
    training_features,      \* line 266
    test_features,          \* line 267
    training_resp,          \* line 300
    test_resp,              \* line 301
    delays,                 \* line 328
    del_training_features,  \* line 330
    del_test_features,      \* line 331
    beta_ols,               \* line 353
    pred_test_resp,         \* line 373
    test_correlations,      \* line 377
    X_train,                \* line 85
    beta_true,              \* line 87
    noise_size,             \* line 83
    Y_train,                \* line 89
    beta_estimate_1,        \* line 151
    beta_estimate_2,        \* line 214
    run,                    \* how often "Run All" was started (1 or 2)
    first,                  \* what the first pass computed, once a second started
    Nexp,                   \* part_000 line 1212
    prmtrs,                 \* part_000 line 1204
    frame,                  \* the local names of the function that is running
    heap,                   \* the objects allocated so far, by reference
    retval                  \* what the last call returned

vars == <<pc, err, training_features, test_features, training_resp, test_resp,
          delays, del_training_features, del_test_features, beta_ols,
          pred_test_resp, test_correlations,
          X_train, beta_true, noise_size, Y_train, beta_estimate_1,
          beta_estimate_2, run, first, Nexp, prmtrs, frame, heap, retval>>

fmriVars == <<training_features, test_features, training_resp, test_resp,
              delays, del_training_features, del_test_features, beta_ols,
              pred_test_resp, test_correlations>>

simVars == <<X_train, beta_true, noise_size, Y_train, beta_estimate_1,
            beta_estimate_2>>

runVars == <<run, first>>

statsVars == <<Nexp, prmtrs>>

callVars == <<frame, heap, retval>>

-----------------------------------------------------------------------------
(* Bounds of the model *)

\* number of time points of a training matrix; held-out matrices of the
\* delay and prediction runs have one row fewer
MaxT == 3

\* a name the kernel has not assigned yet
NotSet == <<>>

-----------------------------------------------------------------------------
(* Matrices: shape and construction *)

Rows(M) == Len(M)

Cols(M) == Len(M[1])

\* a sequence given by a function constructor, evaluated once
Tup(f) == f \o <<>>

Column(M, j) == Tup([t \in 1..Len(M) |-> M[t][j]])

Transpose(M) == Tup([j \in 1..Cols(M) |-> Column(M, j)])

\* all sequences of length n over S
Vec(n, S) == [1..n -> S]

\* all nr x nc matrices over S
Mat(nr, nc, S) == [1..nr -> [1..nc -> S]]

\* all sequences over S of length 1..n
SeqUpTo(n, S) == UNION {[1..k -> S] : k \in 1..n}

RECURSIVE Flatten(_)
Flatten(ss) == IF ss = <<>> THEN <<>> ELSE Head(ss) \o Flatten(Tail(ss))

-----------------------------------------------------------------------------
(* util.make_delayed: the delay embedding *)

ZeroRow(n) == [j \in 1..n |-> 0]

\* one block: stim moved down by d rows, the rows above filled with zero
\* (rows are numbered from 1 here, from 0 in the tutorial); a negative d
\* moves stim up and fills the rows below, and a d of Rows(stim) or more
\* leaves nothing but zeros
Shift(stim, d) ==
    [t \in 1..Rows(stim) |->
        IF t - d >= 1 /\ t - d <= Rows(stim) THEN stim[t - d]
        ELSE ZeroRow(Cols(stim))]

\* np.hstack: row t is the blocks' rows t, side by side in the list's order
HStack(blocks) ==
    [t \in 1..Rows(blocks[1]) |-> Flatten([i \in 1..Len(blocks) |-> blocks[i][t]])]

make_delayed(stim, ds) == HStack([i \in 1..Len(ds) |-> Shift(stim, ds[i])])

-----------------------------------------------------------------------------
(* Exact rational numbers: <<n, d>>, d > 0, in lowest terms *)

Abs(x) == IF x < 0 THEN -x ELSE x

RECURSIVE GCD(_, _)
GCD(a, b) == IF b = 0 THEN a ELSE GCD(b, a % b)

Q(n, d) ==
    LET g == GCD(Abs(n), Abs(d))
        s == IF d < 0 THEN -1 ELSE 1
    IN  <<(s * n) \div g, (s * d) \div g>>

QInt(n) == <<n, 1>>

QZero == <<0, 1>>

QOne == <<1, 1>>

QAdd(a, b) == Q(a[1] * b[2] + b[1] * a[2], a[2] * b[2])

QNeg(a) == <<-a[1], a[2]>>

QSub(a, b) == QAdd(a, QNeg(b))

QMul(a, b) == Q(a[1] * b[1], a[2] * b[2])

\* b # 0
QDiv(a, b) == Q(a[1] * b[2], a[2] * b[1])

QLeq(a, b) == a[1] * b[2] <= b[1] * a[2]

QSign(a) == IF a[1] > 0 THEN 1 ELSE IF a[1] < 0 THEN -1 ELSE 0

RECURSIVE QSumTo(_, _)
\* f[1] + ... + f[n]
QSumTo(f, n) == IF n = 0 THEN QZero ELSE QAdd(QSumTo(f, n - 1), f[n])

QSum(f) == QSumTo(f, Len(f))

\* an integer vector or matrix as a rational one (numpy's conversion to float)
VecToQ(x) == Tup([i \in 1..Len(x) |-> QInt(x[i])])

ToQ(M) == Tup([i \in 1..Len(M) |-> VecToQ(M[i])])

\* a 1-D array used as one column
AsColumn(y) == Tup([i \in 1..Len(y) |-> <<y[i]>>])

-----------------------------------------------------------------------------
(* Linear algebra over the rationals *)

QDot(x, y) == QSum(Tup([k \in 1..Len(x) |-> QMul(x[k], y[k])]))

\* A (m x n) times B (n x k); the caller has checked the shapes
MatMul(A, B) ==
    LET Bt == Transpose(B)
    IN  Tup([i \in 1..Rows(A) |-> Tup([j \in 1..Len(Bt) |-> QDot(A[i], Bt[j])])])

SelectCols(M, S) == Tup([t \in 1..Rows(M) |-> Tup([k \in 1..Len(S) |-> M[t][S[k]]])])

\* M without row i and column j
Minor(M, i, j) ==
    Tup([a \in 1..(Len(M) - 1) |->
        Tup([b \in 1..(Len(M) - 1) |->
            M[IF a < i THEN a ELSE a + 1][IF b < j THEN b ELSE b + 1]])])

RECURSIVE Det(_)
\* cofactor expansion along the first row
Det(M) ==
    IF Len(M) = 1 THEN M[1][1]
    ELSE QSum(Tup([j \in 1..Len(M) |->
                 QMul(IF j % 2 = 1 THEN M[1][j] ELSE QNeg(M[1][j]), Det(Minor(M, 1, j)))]))

Cofactor(M, i, j) ==
    IF Len(M) = 1 THEN QOne
    ELSE IF (i + j) % 2 = 0 THEN Det(Minor(M, i, j)) ELSE QNeg(Det(Minor(M, i, j)))

\* Det(M) # 0
Inv(M) ==
    LET d == Det(M)
    IN  Tup([i \in 1..Len(M) |-> Tup([j \in 1..Len(M) |-> QDiv(Cofactor(M, j, i), d)])])

\* the nr x nc zero matrix
QZeros(nr, nc) == Tup([i \in 1..nr |-> Tup([j \in 1..nc |-> QZero])])

Gram(M) == MatMul(Transpose(M), M)

RECURSIVE IndepFrom(_, _, _)
\* S extended by each of the columns j, j+1, ... that is independent of those kept
IndepFrom(M, j, S) ==
    IF j > Cols(M) THEN S
    ELSE IF Det(Gram(SelectCols(M, Append(S, j)))) # QZero
         THEN IndepFrom(M, j + 1, Append(S, j))
         ELSE IndepFrom(M, j + 1, S)

\* the indices of a maximal set of linearly independent columns
IndepCols(M) == IndepFrom(M, 1, <<>>)

Rank(M) == Len(IndepCols(M))

FullColumnRank(M) == Det(Gram(M)) # QZero

\* the Moore-Penrose pseudo-inverse by a full-rank factorisation M = B C:
\* B the independent columns, C = (B'B)^-1 B' M, pinv = C'(CC')^-1 (B'B)^-1 B'
pinv(M) ==
    LET S == IndepCols(M)
    IN  IF S = <<>> THEN QZeros(Cols(M), Rows(M))
        ELSE LET B  == SelectCols(M, S)
                 Bt == Transpose(B)
                 G  == Inv(MatMul(Bt, B))
                 C  == MatMul(MatMul(G, Bt), M)
                 Ct == Transpose(C)
             IN  MatMul(MatMul(MatMul(Ct, Inv(MatMul(C, Ct))), G), Bt)

\* a solution that puts weight on the independent columns only
basic_pinv(M) ==
    LET S == IndepCols(M)
    IN  IF S = <<>> THEN QZeros(Cols(M), Rows(M))
        ELSE LET B == SelectCols(M, S)
                 W == MatMul(Inv(Gram(B)), Transpose(B))
             IN  Tup([j \in 1..Cols(M) |->
                    IF \E k \in 1..Len(S) : S[k] = j
                    THEN W[CHOOSE k \in 1..Len(S) : S[k] = j]
                    ELSE QZeros(1, Rows(M))[1]])

-----------------------------------------------------------------------------
(* The library calls of the tutorial *)

\* a least-squares fit that drops the surplus rows of the longer argument
lstsq_truncating(a, b) ==
    LET n == IF Rows(a) < Rows(b) THEN Rows(a) ELSE Rows(b)
    IN  [raised |-> "none", x |-> MatMul(pinv(SubSeq(a, 1, n)), SubSeq(b, 1, n))]

\* a fit that forgets the inverse of the Gram matrix: X'Y
lstsq_no_gram(a, b) ==
    IF Rows(a) # Rows(b) THEN [raised |-> "LinAlgError", x |-> NotSet]
    ELSE [raised |-> "none", x |-> MatMul(Transpose(a), b)]

\* a fit that rounds the weights to whole numbers
lstsq_rounded(a, b) ==
    IF Rows(a) # Rows(b) THEN [raised |-> "LinAlgError", x |-> NotSet]
    ELSE [raised |-> "none",
          x |-> LET w == MatMul(pinv(a), b)
                IN  Tup([i \in 1..Rows(w) |-> Tup([j \in 1..Cols(w) |->
                        QInt(w[i][j][1] \div w[i][j][2])])])]

\* a fit that returns some least-squares solution, not the smallest one
lstsq_basic(a, b) ==
    IF Rows(a) # Rows(b) THEN [raised |-> "LinAlgError", x |-> NotSet]
    ELSE [raised |-> "none", x |-> MatMul(basic_pinv(a), b)]

\* np.linalg.lstsq(a, b)[0]: LinAlgError("Incompatible dimensions") when the
\* row counts differ, else the least-squares solution of smallest 2-norm
\* a fit that solves for the first response column only and repeats its
\* weights for every voxel
lstsq_first_column(a, b) ==
    IF Rows(a) # Rows(b) THEN [raised |-> "LinAlgError", x |-> NotSet]
    ELSE [raised |-> "none",
          x |-> LET w == MatMul(pinv(a), AsColumn(Column(b, 1)))
                IN  Tup([i \in 1..Rows(w) |-> Tup([j \in 1..Cols(b) |-> w[i][1]])])]

lstsq(a, b) ==
    IF Rows(a) # Rows(b) THEN [raised |-> "LinAlgError", x |-> NotSet]
    ELSE [raised |-> "none", x |-> MatMul(pinv(a), b)]

\* ndarray.dot of two 2-D arrays: ValueError when the shapes are not aligned
\* np.linalg.inv: raises on a singular matrix
inv(M) ==
    IF Det(M) = QZero THEN [raised |-> "LinAlgError", x |-> NotSet]
    ELSE [raised |-> "none", x |-> Inv(M)]

dot(A, B) ==
    IF Cols(A) # Rows(B) THEN [raised |-> "ValueError", x |-> NotSet]
    ELSE [raised |-> "none", x |-> MatMul(A, B)]

\* a correlation coefficient r, kept exactly as its sign and its square;
\* nan is numpy's result of the division 0/0
NaN == [nan |-> TRUE, sgn |-> 0, sq |-> QZero]

Corr(s, q) == [nan |-> FALSE, sgn |-> s, sq |-> q]

\* a correlation that reports 0 for a constant sequence
corrcoef01_zero(x, y) ==
    LET mx  == QDiv(QSum(x), QInt(Len(x)))
        my  == QDiv(QSum(y), QInt(Len(y)))
        dx  == Tup([i \in 1..Len(x) |-> QSub(x[i], mx)])
        dy  == Tup([i \in 1..Len(y) |-> QSub(y[i], my)])
        cxy == QDot(dx, dy)
        vv  == QMul(QDot(dx, dx), QDot(dy, dy))
    IN  IF vv = QZero THEN Corr(0, QZero)
        ELSE Corr(QSign(cxy), QDiv(QMul(cxy, cxy), vv))

\* a correlation that loses the sign of the covariance
corrcoef01_abs(x, y) ==
    LET mx  == QDiv(QSum(x), QInt(Len(x)))
        my  == QDiv(QSum(y), QInt(Len(y)))
        dx  == Tup([i \in 1..Len(x) |-> QSub(x[i], mx)])
        dy  == Tup([i \in 1..Len(y) |-> QSub(y[i], my)])
        cxy == QDot(dx, dy)
        vv  == QMul(QDot(dx, dx), QDot(dy, dy))
    IN  IF vv = QZero THEN NaN
        ELSE Corr(Abs(QSign(cxy)), QDiv(QMul(cxy, cxy), vv))

\* np.corrcoef(x, y)[0,1]: the covariance of x and y divided by both standard
\* deviations; a zero standard deviation makes the division 0/0, which numpy
\* reports as nan with a RuntimeWarning, not as an exception
corrcoef01(x, y) ==
    LET mx  == QDiv(QSum(x), QInt(Len(x)))
        my  == QDiv(QSum(y), QInt(Len(y)))
        dx  == Tup([i \in 1..Len(x) |-> QSub(x[i], mx)])
        dy  == Tup([i \in 1..Len(y) |-> QSub(y[i], my)])
        cxy == QDot(dx, dy)
        vv  == QMul(QDot(dx, dx), QDot(dy, dy))
    IN  IF vv = QZero THEN NaN
        ELSE Corr(QSign(cxy), QDiv(QMul(cxy, cxy), vv))

\* npp.mcorr(c1, c2): the correlation of each column of c1 with the same
\* column of c2
mcorr(c1, c2) ==
    Tup([v \in 1..Cols(c1) |-> corrcoef01(Column(c1, v), Column(c2, v))])

-----------------------------------------------------------------------------
(* The cells of the fMRI part (lines 323-377) *)

\* a copy-and-paste slip: the training matrix is built from the test stimulus
CellDelay_pasted ==
    /\ pc = "loaded"
    /\ del_training_features' = make_delayed(test_features, delays)
    /\ del_test_features' = make_delayed(test_features, delays)
    /\ pc' = "delayed"
    /\ UNCHANGED <<err, training_features, test_features, training_resp, test_resp,
                   delays, beta_ols, pred_test_resp, test_correlations>>
    /\ UNCHANGED <<simVars, runVars, statsVars, callVars>>

\* a slip: the test stimulus is used as it is, without the delays
CellDelay_test_undelayed ==
    /\ pc = "loaded"
    /\ del_training_features' = make_delayed(training_features, delays)
    /\ del_test_features' = test_features
    /\ pc' = "delayed"
    /\ UNCHANGED <<err, training_features, test_features, training_resp, test_resp,
                   delays, beta_ols, pred_test_resp, test_correlations>>
    /\ UNCHANGED <<simVars, runVars, statsVars, callVars>>

\* a slip: the test call is given the delays in increasing order
CellDelay_test_sorted ==
    /\ pc = "loaded"
    /\ del_training_features' = make_delayed(training_features, delays)
    /\ del_test_features' = make_delayed(test_features, SortSeq(delays, LAMBDA a, b : a < b))
    /\ pc' = "delayed"
    /\ UNCHANGED <<err, training_features, test_features, training_resp, test_resp,
                   delays, beta_ols, pred_test_resp, test_correlations>>
    /\ UNCHANGED <<simVars, runVars, statsVars, callVars>>

\* np.roll along the time axis: the rows pushed out at one end come back in
\* at the other
Roll(stim, d) ==
    [t \in 1..Rows(stim) |-> stim[((t - d - 1) % Rows(stim)) + 1]]

\* a slip: the blocks are made with np.roll instead of make_delayed
CellDelay_rolled ==
    /\ pc = "loaded"
    /\ del_training_features' =
          HStack([i \in 1..Len(delays) |-> Roll(training_features, delays[i])])
    /\ del_test_features' =
          HStack([i \in 1..Len(delays) |-> Roll(test_features, delays[i])])
    /\ pc' = "delayed"
    /\ UNCHANGED <<err, training_features, test_features, training_resp, test_resp,
                   delays, beta_ols, pred_test_resp, test_correlations>>
    /\ UNCHANGED <<simVars, runVars, statsVars, callVars>>

\* a slip: the delayed training matrix is stored under the name of its input,
\* training_features = make_delayed(training_features, delays)
CellDelay_overwriting ==
    /\ pc = "loaded"
    /\ training_features' = make_delayed(training_features, delays)
    /\ del_training_features' = make_delayed(training_features, delays)
    /\ del_test_features' = make_delayed(test_features, delays)
    /\ pc' = "delayed"
    /\ UNCHANGED <<err, test_features, training_resp, test_resp,
                   delays, beta_ols, pred_test_resp, test_correlations>>
    /\ UNCHANGED <<simVars, runVars, statsVars, callVars>>

\* a delay embedding that shifts its argument in place by the first delay
\* while it builds the blocks
CellDelay_shifting_in_place ==
    /\ pc = "loaded"
    /\ training_features' = Shift(training_features, delays[1])
    /\ test_features' = Shift(test_features, delays[1])
    /\ del_training_features' = make_delayed(training_features, delays)
    /\ del_test_features' = make_delayed(test_features, delays)
    /\ pc' = "delayed"
    /\ UNCHANGED <<err, training_resp, test_resp,
                   delays, beta_ols, pred_test_resp, test_correlations>>
    /\ UNCHANGED <<simVars, runVars, statsVars, callVars>>

\* a slip: every delay is counted from the next time point on, d + 1 for d
CellDelay_one_later ==
    /\ pc = "loaded"
    /\ del_training_features' =
          make_delayed(training_features, [i \in 1..Len(delays) |-> delays[i] + 1])
    /\ del_test_features' =
          make_delayed(test_features, [i \in 1..Len(delays) |-> delays[i] + 1])
    /\ pc' = "delayed"
    /\ UNCHANGED <<err, training_features, test_features, training_resp, test_resp,
                   delays, beta_ols, pred_test_resp, test_correlations>>
    /\ UNCHANGED <<simVars, runVars, statsVars, callVars>>

\* a slip: every delay is counted one time point too early, d - 1 for d
CellDelay_one_earlier ==
    /\ pc = "loaded"
    /\ del_training_features' =
          make_delayed(training_features, [i \in 1..Len(delays) |-> delays[i] - 1])
    /\ del_test_features' =
          make_delayed(test_features, [i \in 1..Len(delays) |-> delays[i] - 1])
    /\ pc' = "delayed"
    /\ UNCHANGED <<err, training_features, test_features, training_resp, test_resp,
                   delays, beta_ols, pred_test_resp, test_correlations>>
    /\ UNCHANGED <<simVars, runVars, statsVars, callVars>>

\* lines 323-331
CellDelay ==
    /\ pc = "loaded"
    /\ del_training_features' = make_delayed(training_features, delays)
    /\ del_test_features' = make_delayed(test_features, delays)
    /\ pc' = "delayed"
    /\ UNCHANGED <<err, training_features, test_features, training_resp, test_resp,
                   delays, beta_ols, pred_test_resp, test_correlations>>
    /\ UNCHANGED <<simVars, runVars, statsVars, callVars>>

\* a leak: the weights are fitted to the held-out data
CellFit_on_test ==
    /\ pc = "delayed"
    /\ LET r == lstsq(ToQ(del_test_features), ToQ(test_resp))
       IN  IF r.raised # "none"
           THEN /\ pc' = "error"
                /\ err' = r.raised
                /\ UNCHANGED beta_ols
           ELSE /\ pc' = "fit"
                /\ beta_ols' = r.x
                /\ UNCHANGED err
    /\ UNCHANGED <<training_features, test_features, training_resp, test_resp, delays,
                   del_training_features, del_test_features, pred_test_resp,
                   test_correlations>>
    /\ UNCHANGED <<simVars, runVars, statsVars, callVars>>

\* a slip: the solution is kept transposed, lstsq(...)[0].T
CellFit_weights_transposed ==
    /\ pc = "delayed"
    /\ LET r == lstsq(ToQ(del_training_features), ToQ(training_resp))
       IN  IF r.raised # "none"
           THEN /\ pc' = "error"
                /\ err' = r.raised
                /\ UNCHANGED beta_ols
           ELSE /\ pc' = "fit"
                /\ beta_ols' = Transpose(r.x)
                /\ UNCHANGED err
    /\ UNCHANGED <<training_features, test_features, training_resp, test_resp, delays,
                   del_training_features, del_test_features, pred_test_resp,
                   test_correlations>>
    /\ UNCHANGED <<simVars, runVars, statsVars, callVars>>

\* lines 351-353
CellFit ==
    /\ pc = "delayed"
    /\ LET r == lstsq(ToQ(del_training_features), ToQ(training_resp))
       IN  IF r.raised # "none"
           THEN /\ pc' = "error"
                /\ err' = r.raised
                /\ UNCHANGED beta_ols
           ELSE /\ pc' = "fit"
                /\ beta_ols' = r.x
                /\ UNCHANGED err
    /\ UNCHANGED <<training_features, test_features, training_resp, test_resp, delays,
                   del_training_features, del_test_features, pred_test_resp,
                   test_correlations>>
    /\ UNCHANGED <<simVars, runVars, statsVars, callVars>>

\* a slip: the matrices are handed over transposed, time points for voxels
CellTest_transposed ==
    /\ pc = "fit"
    /\ LET p == dot(ToQ(del_test_features), beta_ols)
       IN  IF p.raised # "none"
           THEN /\ pc' = "error"
                /\ err' = p.raised
                /\ UNCHANGED <<pred_test_resp, test_correlations>>
           ELSE /\ pc' = "evaluated"
                /\ pred_test_resp' = p.x
                /\ test_correlations' = mcorr(Transpose(ToQ(test_resp)), Transpose(p.x))
                /\ UNCHANGED err
    /\ UNCHANGED <<training_features, test_features, training_resp, test_resp, delays,
                   del_training_features, del_test_features, beta_ols>>
    /\ UNCHANGED <<simVars, runVars, statsVars, callVars>>

\* a slip: the prediction is formed as beta_ols.T.dot(del_test_features.T),
\* one row per voxel
CellTest_pred_transposed ==
    /\ pc = "fit"
    /\ LET p == dot(ToQ(del_test_features), beta_ols)
       IN  IF p.raised # "none"
           THEN /\ pc' = "error"
                /\ err' = p.raised
                /\ UNCHANGED <<pred_test_resp, test_correlations>>
           ELSE /\ pc' = "evaluated"
                /\ pred_test_resp' = Transpose(p.x)
                /\ test_correlations' = mcorr(ToQ(test_resp), p.x)
                /\ UNCHANGED err
    /\ UNCHANGED <<training_features, test_features, training_resp, test_resp, delays,
                   del_training_features, del_test_features, beta_ols>>
    /\ UNCHANGED <<simVars, runVars, statsVars, callVars>>

\* lines 372-377: the prediction, then the correlation of each voxel
CellTest ==
    /\ pc = "fit"
    /\ LET p == dot(ToQ(del_test_features), beta_ols)
       IN  IF p.raised # "none"
           THEN /\ pc' = "error"
                /\ err' = p.raised
                /\ UNCHANGED <<pred_test_resp, test_correlations>>
           ELSE /\ pc' = "evaluated"
                /\ pred_test_resp' = p.x
                /\ test_correlations' = mcorr(ToQ(test_resp), p.x)
                /\ UNCHANGED err
    /\ UNCHANGED <<training_features, test_features, training_resp, test_resp, delays,
                   del_training_features, del_test_features, beta_ols>>
    /\ UNCHANGED <<simVars, runVars, statsVars, callVars>>

\* what the cells of lines 323-377 have assigned
Outputs ==
    <<del_training_features, del_test_features, beta_ols, pred_test_resp,
      test_correlations>>

\* "Run All" a second time in the same kernel: every name keeps its value,
\* and the cells of lines 323-377 run again from the first
CellRestart ==
    /\ pc = "evaluated"
    /\ run = 1
    /\ run' = 2
    /\ first' = Outputs
    /\ pc' = "loaded"
    /\ UNCHANGED <<err, fmriVars, simVars, statsVars, callVars>>

-----------------------------------------------------------------------------
(* The cells of the simulated regression (lines 79-218) *)

\* a slip: the inverse is left out, X'X X'Y
CellEstimate1_no_inverse ==
    /\ pc = "generated"
    /\ LET X == ToQ(X_train)
           g == inv(Gram(X))
       IN  IF g.raised # "none"
           THEN /\ pc' = "error"
                /\ err' = g.raised
                /\ UNCHANGED beta_estimate_1
           ELSE /\ pc' = "estimated_1"
                /\ beta_estimate_1' =
                      Column(MatMul(MatMul(Gram(X), Transpose(X)),
                                    AsColumn(VecToQ(Y_train))), 1)
                /\ UNCHANGED err
    /\ UNCHANGED <<X_train, beta_true, noise_size, Y_train, beta_estimate_2>>
    /\ UNCHANGED <<fmriVars, runVars, statsVars, callVars>>

\* line 151: the normal equations, solved with an explicit inverse
CellEstimate1 ==
    /\ pc = "generated"
    /\ LET X == ToQ(X_train)
           g == inv(Gram(X))
       IN  IF g.raised # "none"
           THEN /\ pc' = "error"
                /\ err' = g.raised
                /\ UNCHANGED beta_estimate_1
           ELSE /\ pc' = "estimated_1"
                /\ beta_estimate_1' =
                      Column(MatMul(MatMul(g.x, Transpose(X)),
                                    AsColumn(VecToQ(Y_train))), 1)
                /\ UNCHANGED err
    /\ UNCHANGED <<X_train, beta_true, noise_size, Y_train, beta_estimate_2>>
    /\ UNCHANGED <<fmriVars, runVars, statsVars, callVars>>

\* lines 208-216; Y_train is 1-D, and so is the result
CellEstimate2 ==
    /\ pc \in {"generated", "estimated_1"}
    /\ LET r == lstsq(ToQ(X_train), AsColumn(VecToQ(Y_train)))
       IN  IF r.raised # "none"
           THEN /\ pc' = "error"
                /\ err' = r.raised
                /\ UNCHANGED beta_estimate_2
           ELSE /\ pc' = "estimated"
                /\ beta_estimate_2' = Column(r.x, 1)
                /\ UNCHANGED err
    /\ UNCHANGED <<X_train, beta_true, noise_size, Y_train, beta_estimate_1>>
    /\ UNCHANGED <<fmriVars, runVars, statsVars, callVars>>

-----------------------------------------------------------------------------
(* Inputs and specifications *)

\* word-indicator features (line 229) and small responses
Bits == {0, 1}

\* numbers of features of a stimulus matrix
FeatureCounts == {1, 2}

\* line 328
TutorialDelays == <<1, 2, 3, 4>>

\* delay lists: in and out of order, with a repeated delay, with a delay that
\* reaches the number of time points
DelayLists == {<<0>>, <<1>>, <<0, 1>>, <<2, 1>>, <<1, 1>>, <<0, 1, 1>>, <<1, MaxT>>}

FmriUnset ==
    /\ del_training_features = NotSet
    /\ del_test_features = NotSet
    /\ beta_ols = NotSet
    /\ pred_test_resp = NotSet
    /\ test_correlations = NotSet

SimUnset ==
    /\ X_train = NotSet
    /\ beta_true = NotSet
    /\ noise_size = 0
    /\ Y_train = NotSet
    /\ beta_estimate_1 = NotSet
    /\ beta_estimate_2 = NotSet

\* nothing was re-run, no function is running, the other notebooks are closed
OthersUnset ==
    /\ run = 1
    /\ first = NotSet
    /\ Nexp = 0
    /\ prmtrs = NotSet
    /\ frame = NotSet
    /\ heap = NotSet
    /\ retval = NotSet

\* the delay embedding alone: the stimuli are loaded (lines 266-267), the
\* responses do not matter to it; every list of one or two delays up to the
\* number of time points, and the tutorial's own list
InitDelay ==
    /\ pc = "loaded"
    /\ err = "none"
    /\ \E F \in FeatureCounts :
          /\ training_features \in Mat(MaxT, F, Bits)
          /\ test_features \in Mat(MaxT - 1, F, Bits)
    /\ delays \in SeqUpTo(2, 0..MaxT) \cup {TutorialDelays}
    /\ training_resp = NotSet
    /\ test_resp = NotSet
    /\ FmriUnset
    /\ SimUnset
    /\ OthersUnset

SpecDelay == InitDelay /\ [][CellDelay]_vars

\* the fit alone, from the state the delay cell leaves: one feature, a
\* response matrix of one voxel, possibly a row short, or of two voxels that
\* differ at the first time point
InitFit ==
    /\ pc = "delayed"
    /\ err = "none"
    /\ training_features \in Mat(MaxT, 1, Bits)
    /\ delays \in DelayLists
    /\ del_training_features = make_delayed(training_features, delays)
    /\ training_resp \in Mat(MaxT, 1, Bits) \cup Mat(MaxT - 1, 1, Bits)
                            \cup {Y \in Mat(MaxT, 2, Bits) : Y[1] = <<1, 0>>}
    /\ test_features = NotSet
    /\ test_resp = NotSet
    /\ del_test_features = NotSet
    /\ beta_ols = NotSet
    /\ pred_test_resp = NotSet
    /\ test_correlations = NotSet
    /\ SimUnset
    /\ OthersUnset

SpecFit == InitFit /\ [][CellFit]_vars

\* numbers of voxels of a response matrix
VoxelCounts == {1, 2}

\* delay lists of the wide fit: one or two delays
WideDelayLists == {<<0>>, <<0, 1>>, <<2, 1>>}

\* responses of the wide fit: one voxel that responds at the first time
\* point, or two voxels of which the first responds first and the second next
WideResponses(V) ==
    IF V = 1 THEN {Y \in Mat(MaxT, 1, Bits) : Y[1] = <<1>>}
    ELSE {Y \in Mat(MaxT, 2, Bits) : Y[1] = <<1, 0>> /\ Y[2] = <<0, 1>>}

\* the fit alone with one or two features (two: the first word comes first),
\* so that the delayed design has F * len(delays) = 1, 2 or 4 columns
InitFitWide ==
    /\ pc = "delayed"
    /\ err = "none"
    /\ \E F \in FeatureCounts :
          training_features \in
              IF F = 1 THEN Mat(MaxT, 1, Bits)
              ELSE {X \in Mat(MaxT, 2, Bits) : X[1] = <<1, 0>>}
    /\ delays \in WideDelayLists
    /\ del_training_features = make_delayed(training_features, delays)
    /\ \E V \in VoxelCounts : training_resp \in WideResponses(V)
    /\ test_features = NotSet
    /\ test_resp = NotSet
    /\ del_test_features = NotSet
    /\ beta_ols = NotSet
    /\ pred_test_resp = NotSet
    /\ test_correlations = NotSet
    /\ SimUnset
    /\ OthersUnset

SpecFitWide == InitFitWide /\ [][CellFit]_vars

\* test stimuli: any indicator column for one feature; for two features the
\* same single word at every time point
TestStimuli(F) ==
    IF F = 1 THEN Mat(MaxT - 1, 1, Bits)
    ELSE {[t \in 1..(MaxT - 1) |-> r] : r \in {<<1, 0>>, <<0, 1>>}}

\* a delay the contract does not cover: negative, or the number of time
\* points of the training matrix or more
OutOfRange(d) == d < 0 \/ d >= MaxT

\* the delay embedding with delays outside the contract: lists of one or two
\* delays from -(MaxT+1) to MaxT+1, at least one of them out of range
InitDelayAny ==
    /\ pc = "loaded"
    /\ err = "none"
    /\ \E F \in FeatureCounts :
          /\ training_features \in Mat(MaxT, F, Bits)
          /\ test_features \in TestStimuli(F)
    /\ delays \in {ds \in SeqUpTo(2, (0 - MaxT - 1)..(MaxT + 1)) :
                      \E i \in 1..Len(ds) : OutOfRange(ds[i])}
    /\ training_resp = NotSet
    /\ test_resp = NotSet
    /\ FmriUnset
    /\ SimUnset
    /\ OthersUnset

SpecDelayAny == InitDelayAny /\ [][CellDelay]_vars

PipelineDelays == {<<1>>, <<0, 1>>, <<1, 1>>}

\* the whole fMRI pipeline from the loaded data: one training feature, test
\* features with one or two columns, one voxel, training responses of full
\* length or (all zero) a row short, test responses that start at 0
Init ==
    /\ pc = "loaded"
    /\ err = "none"
    /\ training_features \in Mat(MaxT, 1, Bits)
    /\ \E F \in FeatureCounts : test_features \in TestStimuli(F)
    /\ delays \in PipelineDelays
    /\ training_resp \in Mat(MaxT, 1, Bits) \cup Mat(MaxT - 1, 1, {0})
    /\ test_resp \in {Y \in Mat(MaxT - 1, 1, Bits) : Y[1] = <<0>>}
    /\ FmriUnset
    /\ SimUnset
    /\ OthersUnset

Next == CellDelay \/ CellFit \/ CellTest

Spec == Init /\ [][Next]_vars

\* the pipeline run twice in one kernel
NextRerun == Next \/ CellRestart

SpecRerun == Init /\ [][NextRerun]_vars

\* weights a fit may have left: one per voxel on the diagonal
EvalWeights(V) ==
    IF V = 1 THEN {<<<<w>>>> : w \in {QInt(1), QInt(-1), Q(1, 2)}}
    ELSE {<<<<QInt(1), QZero>>, <<QZero, w>>>> : w \in {QInt(1), QInt(-1), Q(-1, 2)}}

\* the evaluation alone, from the state the fit leaves: one voxel with
\* features and responses in 0..2, or two voxels with indicator features (the
\* first time point holds the first word) and responses in 0..1
InitEval ==
    /\ pc = "fit"
    /\ err = "none"
    /\ \E V \in {1, 2} :
          /\ del_test_features \in
                IF V = 1 THEN Mat(MaxT, 1, {0, 1, 2})
                ELSE {X \in Mat(MaxT, 2, Bits) : X[1] = <<1, 0>>}
          /\ test_resp \in Mat(MaxT, V, IF V = 1 THEN {0, 1, 2} ELSE Bits)
          /\ beta_ols \in EvalWeights(V)
    /\ training_features = NotSet
    /\ test_features = NotSet
    /\ training_resp = NotSet
    /\ delays = NotSet
    /\ del_training_features = NotSet
    /\ pred_test_resp = NotSet
    /\ test_correlations = NotSet
    /\ SimUnset
    /\ OthersUnset

SpecEval == InitEval /\ [][CellTest]_vars

\* the simulated regression after lines 79-89: Y = X beta + noise, with the
\* noise switched off (noise_size 0) or at the tutorial's size
\* numbers of columns of a delayed design
PredictorCounts == {1, 2, 3}

\* P x V weights a fit may have left
ShapedWeights(P, V) ==
    {Tup([i \in 1..P |-> Tup([j \in 1..V |-> Q(i - j * w, 2)])]) : w \in {0, 1}}

\* T x V responses: silent, or rising over time and voxels
ShapedResponses(T, V) ==
    {Tup([t \in 1..T |-> Tup([j \in 1..V |-> c * (t + j)])]) : c \in {0, 1}}

\* the prediction alone, over every shape: a held-out design of 1..MaxT time
\* points and P columns, weights of P rows and V columns
InitPredict ==
    /\ pc = "fit"
    /\ err = "none"
    /\ \E T_test \in 1..MaxT, P \in PredictorCounts, V \in VoxelCounts :
          /\ del_test_features \in Mat(T_test, P, Bits)
          /\ beta_ols \in ShapedWeights(P, V)
          /\ test_resp \in ShapedResponses(T_test, V)
    /\ training_features = NotSet
    /\ test_features = NotSet
    /\ training_resp = NotSet
    /\ delays = NotSet
    /\ del_training_features = NotSet
    /\ pred_test_resp = NotSet
    /\ test_correlations = NotSet
    /\ SimUnset
    /\ OthersUnset

SpecPredict == InitPredict /\ [][CellTest]_vars

-----------------------------------------------------------------------------
\* the pipeline with the tutorial's own delays [1,2,3,4], on stimuli longer
\* than the longest delay: MaxT + 3 time points of one feature; the training
\* stimulus alternates and is free in its last time point, the held-out
\* stimulus is any
InitTutorial ==
    /\ pc = "loaded"
    /\ err = "none"
    /\ delays = TutorialDelays
    /\ training_features \in
          {X \in Mat(MaxT + 3, 1, Bits) : \A t \in 1..(MaxT + 2) : X[t] = <<t % 2>>}
    /\ test_features \in Mat(MaxT + 3, 1, Bits)
    /\ \E V \in VoxelCounts :
          /\ training_resp \in ShapedResponses(MaxT + 3, V)
          /\ test_resp \in ShapedResponses(MaxT + 3, V)
    /\ FmriUnset
    /\ SimUnset
    /\ OthersUnset

SpecTutorial == InitTutorial /\ [][Next]_vars

-----------------------------------------------------------------------------
SimFeatureCounts == {1, 2}

NoiseSizes == {0, 5}

InitSim ==
    /\ pc = "generated"
    /\ err = "none"
    /\ noise_size \in NoiseSizes
    /\ \E p \in SimFeatureCounts :
          /\ X_train \in Mat(MaxT, p, Bits)
          /\ beta_true \in Vec(p, {-1, 1, 2})
    /\ \E eps \in Vec(MaxT, {-1, 1}) :
          Y_train = [t \in 1..MaxT |->
                       LET xb == [k \in 1..Len(beta_true) |-> X_train[t][k] * beta_true[k]]
                       IN  (IF Len(xb) = 1 THEN xb[1] ELSE xb[1] + xb[2])
                           + noise_size * eps[t]]
    /\ beta_estimate_1 = NotSet
    /\ beta_estimate_2 = NotSet
    /\ training_features = NotSet
    /\ test_features = NotSet
    /\ training_resp = NotSet
    /\ test_resp = NotSet
    /\ delays = NotSet
    /\ FmriUnset
    /\ OthersUnset

SpecSim == InitSim /\ [][CellEstimate2]_vars

\* the simulated data before either estimate: as InitSim, with true weights
\* of -1 or 2 and a noise that starts upwards
InitCompare ==
    /\ pc = "generated"
    /\ err = "none"
    /\ noise_size \in NoiseSizes
    /\ \E p \in SimFeatureCounts :
          /\ X_train \in Mat(MaxT, p, Bits)
          /\ beta_true \in Vec(p, {-1, 2})
    /\ \E eps \in {e \in Vec(MaxT, {-1, 1}) : e[1] = 1} :
          Y_train = [t \in 1..MaxT |->
                       LET xb == [k \in 1..Len(beta_true) |-> X_train[t][k] * beta_true[k]]
                       IN  (IF Len(xb) = 1 THEN xb[1] ELSE xb[1] + xb[2])
                           + noise_size * eps[t]]
    /\ beta_estimate_1 = NotSet
    /\ beta_estimate_2 = NotSet
    /\ training_features = NotSet
    /\ test_features = NotSet
    /\ training_resp = NotSet
    /\ test_resp = NotSet
    /\ delays = NotSet
    /\ FmriUnset
    /\ OthersUnset

\* both estimates of the simulated regression, in the notebook's order
NextCompare == CellEstimate1 \/ CellEstimate2

SpecCompare == InitCompare /\ [][NextCompare]_vars

-----------------------------------------------------------------------------
(* The simulation of confidence intervals (unnamed/part_000, lines 1139-1213) *)

\* a quotient of floats that may divide by zero: a finite value kept as its
\* sign and its square, or inf with its sign, or nan
Finite(sg, q) == [kind |-> "finite", sgn |-> sg, sq |-> q]

Infinite(sg) == [kind |-> "inf", sgn |-> sg, sq |-> QZero]

NotANumber == [kind |-> "nan", sgn |-> 0, sq |-> QZero]

\* e / sqrt(s2), s2 >= 0
OverRoot(e, s2) ==
    IF s2 = QZero
    THEN IF e = QZero THEN NotANumber ELSE Infinite(QSign(e))
    ELSE Finite(QSign(e), QDiv(QMul(e, e), s2))

\* x > thr for a quotient x and a float thr; a comparison with nan is False
Exceeds(x, thr) ==
    CASE x.kind = "nan" -> FALSE
      [] x.kind = "inf" -> x.sgn > 0
      [] OTHER ->
            IF QSign(thr) >= 0
            THEN x.sgn > 0 /\ ~QLeq(x.sq, QMul(thr, thr))
            ELSE x.sgn >= 0 \/ ~QLeq(QMul(thr, thr), x.sq)

\* mid + sg * sqrt(q): a float next to a square root
Surd(mid, sg, q) == [mid |-> mid, sgn |-> IF q = QZero THEN 0 ELSE sg, sq |-> q]

\* np.zeros((k,)) of such values
ZeroQuotients(k) == Tup([i \in 1..k |-> Finite(0, QZero)])

ZeroFloats(k) == Tup([i \in 1..k |-> QZero])

ZeroSurds(k) == Tup([i \in 1..k |-> Surd(QZero, 0, QZero)])

\* sample.mean()
Mean(sample) == QDiv(QSum(sample), QInt(Len(sample)))

\* np.std(sample, ddof=1) squared
Variance(sample) ==
    LET m == Mean(sample)
    IN  QDiv(QSum(Tup([i \in 1..Len(sample) |->
                         QMul(QSub(sample[i], m), QSub(sample[i], m))])),
             QInt(Len(sample) - 1))

\* upper quantiles of Student's t, to three decimals, by degrees of freedom
T05 == <<Q(6314, 1000), Q(2920, 1000), Q(2353, 1000), Q(2132, 1000)>>

T025 == <<Q(12706, 1000), Q(4303, 1000), Q(3182, 1000), Q(2776, 1000)>>

\* sst.t(df).isf(q) for the tail probabilities in use
isf(df, q) ==
    CASE q = Q(1, 2) -> QZero
      [] q = Q(1, 20) -> T05[df]
      [] q = Q(1, 40) -> T025[df]
      [] q = Q(19, 20) -> QNeg(T05[df])

\* the confidence level of the call, CI=.95
CI == Q(95, 100)

\* confidence levels a call may be given: none, 90%, the default, and one
\* below zero
Levels == {QZero, Q(9, 10), CI, Q(-9, 10)}

\* what norv.rvs(size=(n,)) may draw: one value, then n-1 equal values
Draws(k) == {Tup([i \in 1..k |-> QInt(IF i = 1 THEN x ELSE y)]) :
                x \in {-1, 0, 2, 3}, y \in {0, 1}}

\* lines 1154-1174, entered from the call of line 1213
CICall ==
    /\ pc = "ci_ready"
    /\ pc' = "ci_loop"
    /\ \E level \in Levels :
        frame' = [CI      |-> level,
                 df      |-> prmtrs.n - 1,
                 t       |-> ZeroQuotients(Nexp),
                 effect  |-> ZeroFloats(Nexp),
                 lCI     |-> ZeroSurds(Nexp),
                 uCI     |-> ZeroSurds(Nexp),
                 t_ci    |-> isf(prmtrs.n - 1, QDiv(QSub(QOne, level), QInt(2))),
                 t_alph  |-> isf(prmtrs.n - 1, prmtrs.alpha),
                 experim |-> 0]
    /\ UNCHANGED <<err, heap, retval, statsVars, fmriVars, simVars, runVars>>

\* a slip: the upper bound is one standard error above the effect, the factor
\* t_ci left out
CIExperiment_upper_by_one_error ==
    /\ pc = "ci_loop"
    /\ frame.experim < Nexp
    /\ \E draw \in Draws(prmtrs.n) :
          LET sample == Tup([i \in 1..prmtrs.n |-> QAdd(draw[i], prmtrs.mu)])
              e      == Mean(sample)
              sem2   == QDiv(Variance(sample), QInt(prmtrs.n))
              ci2    == QMul(QMul(frame.t_ci, frame.t_ci), sem2)
              k      == frame.experim + 1
          IN  frame' = [frame EXCEPT
                          !.effect[k] = e,
                          !.t[k] = OverRoot(e, sem2),
                          !.lCI[k] = Surd(e, 0 - QSign(frame.t_ci), ci2),
                          !.uCI[k] = Surd(e, 1, sem2),
                          !.experim = k]
    /\ UNCHANGED <<pc, err, heap, retval, statsVars, fmriVars, simVars, runVars>>

\* lines 1176-1188: one round of the loop; frame.experim counts the rounds
\* done, so the round writes entry experim of the tutorial, experim + 1 here
CIExperiment ==
    /\ pc = "ci_loop"
    /\ frame.experim < Nexp
    /\ \E draw \in Draws(prmtrs.n) :
          LET sample == Tup([i \in 1..prmtrs.n |-> QAdd(draw[i], prmtrs.mu)])
              e      == Mean(sample)
              sem2   == QDiv(Variance(sample), QInt(prmtrs.n))
              ci2    == QMul(QMul(frame.t_ci, frame.t_ci), sem2)
              k      == frame.experim + 1
          IN  frame' = [frame EXCEPT
                          !.effect[k] = e,
                          !.t[k] = OverRoot(e, sem2),
                          !.lCI[k] = Surd(e, 0 - QSign(frame.t_ci), ci2),
                          !.uCI[k] = Surd(e, QSign(frame.t_ci), ci2),
                          !.experim = k]
    /\ UNCHANGED <<pc, err, heap, retval, statsVars, fmriVars, simVars, runVars>>

\* a slip: detection is judged against the threshold of the interval, t_ci
CIReturn_interval_threshold ==
    /\ pc = "ci_loop"
    /\ frame.experim = Nexp
    /\ retval' = [effect |-> frame.effect,
                  detect |-> Tup([i \in 1..Len(frame.t) |->
                                    Exceeds(frame.t[i], frame.t_ci)]),
                  lCI    |-> frame.lCI,
                  uCI    |-> frame.uCI,
                  t      |-> frame.t]
    /\ frame' = NotSet
    /\ pc' = "ci_returned"
    /\ UNCHANGED <<err, heap, statsVars, fmriVars, simVars, runVars>>

\* lines 1190-1194, the loop being over
CIReturn ==
    /\ pc = "ci_loop"
    /\ frame.experim = Nexp
    /\ retval' = [effect |-> frame.effect,
                  detect |-> Tup([i \in 1..Len(frame.t) |->
                                    Exceeds(frame.t[i], frame.t_alph)]),
                  lCI    |-> frame.lCI,
                  uCI    |-> frame.uCI,
                  t      |-> frame.t]
    /\ frame' = NotSet
    /\ pc' = "ci_returned"
    /\ UNCHANGED <<err, heap, statsVars, fmriVars, simVars, runVars>>

\* numbers of simulated experiments
MaxNexp == 2

SampleSizes == {2, 3}

Alphas == {Q(1, 20), Q(1, 2), Q(19, 20)}

Effects == {QZero, Q(3, 10)}

\* the state before the call of line 1213
InitCI ==
    /\ pc = "ci_ready"
    /\ err = "none"
    /\ Nexp \in 0..MaxNexp
    /\ prmtrs \in [n : SampleSizes, mu : Effects, sigma : {QOne}, alpha : Alphas]
    /\ frame = NotSet
    /\ heap = NotSet
    /\ retval = NotSet
    /\ run = 1
    /\ first = NotSet
    /\ training_features = NotSet
    /\ test_features = NotSet
    /\ training_resp = NotSet
    /\ test_resp = NotSet
    /\ delays = NotSet
    /\ FmriUnset
    /\ SimUnset

NextCI == CICall \/ CIExperiment \/ CIReturn

SpecCI == InitCI /\ [][NextCI]_vars

-----------------------------------------------------------------------------
(* The repeated experiments (unnamed/part_000, lines 867-876 and 913-929) *)

\* x >= thr for a quotient x and a float thr; a comparison with nan is False
Reaches(x, thr) ==
    CASE x.kind = "nan" -> FALSE
      [] x.kind = "inf" -> x.sgn > 0
      [] OTHER ->
            IF QSign(thr) > 0
            THEN x.sgn > 0 /\ QLeq(QMul(thr, thr), x.sq)
            ELSE x.sgn >= 0 \/ QLeq(x.sq, QMul(thr, thr))

\* lines 867-876
t_value_from_sample(sample) ==
    OverRoot(Mean(sample), QDiv(Variance(sample), QInt(Len(sample))))

\* sst.t.sf(t, df): the tail of Student's t beyond t, kept by its arguments
sf(t, df) == [t |-> t, df |-> df]

\* p <= a for such a tail: sf falls as t grows, so the tail is at most a
\* from t = isf(a) on; the tail at nan is nan, which compares False
PLeq(p, a) == Reaches(p.t, isf(p.df, a))

\* the generator behind distrib.rvs: the samples it is going to return, and
\* how many of them it has returned
RandomState(stream) == [stream |-> stream, drawn |-> 0]

\* what distrib.rvs(size=(k,)) may draw: one value, then k-1 equal values
Rvs(k) == {Tup([i \in 1..k |-> QInt(IF i = 1 THEN x ELSE y)]) :
              x \in {0, 2, 3}, y \in {0, 1, 2}}

\* lines 916-918
ExperimentsStart ==
    /\ pc = "exp_ready"
    /\ pc' = "exp_loop"
    /\ frame' = [sample_size       |-> frame.sample_size,
                 nb_of_experiments |-> frame.nb_of_experiments,
                 alpha             |-> Q(1, 20),
                 effect_size       |-> <<>>,
                 idx               |-> 0,
                 out               |-> <<>>]
    /\ UNCHANGED <<err, heap, retval, statsVars, fmriVars, simVars, runVars>>

\* a slip: the mean is put in front, effect_size.insert(0, sample.mean())
ExperimentRound_in_front ==
    /\ pc = "exp_loop"
    /\ frame.idx < frame.nb_of_experiments
    /\ \E sample \in {heap[1].stream[heap[1].drawn + 1]} :
       \E t_val \in {t_value_from_sample(sample)} :
          LET p_val  == sf(t_val, frame.sample_size - 1)
              signif == IF PLeq(p_val, frame.alpha) THEN 1 ELSE 0
          IN  frame' = [frame EXCEPT
                          !.idx = @ + 1,
                          !.out = Append(@, <<t_val, p_val, signif>>),
                          !.effect_size = IF signif # 0
                                          THEN <<Mean(sample)>> \o @
                                          ELSE @]
    /\ heap' = [heap EXCEPT ![1].drawn = @ + 1]
    /\ UNCHANGED <<pc, err, retval, statsVars, fmriVars, simVars, runVars>>

\* lines 920-927: one round of the loop; frame.idx counts the rounds done
ExperimentRound ==
    /\ pc = "exp_loop"
    /\ frame.idx < frame.nb_of_experiments
    /\ \E sample \in {heap[1].stream[heap[1].drawn + 1]} :
       \E t_val \in {t_value_from_sample(sample)} :
          LET p_val  == sf(t_val, frame.sample_size - 1)
              signif == IF PLeq(p_val, frame.alpha) THEN 1 ELSE 0
          IN  frame' = [frame EXCEPT
                          !.idx = @ + 1,
                          !.out = Append(@, <<t_val, p_val, signif>>),
                          !.effect_size = IF signif # 0
                                          THEN Append(@, Mean(sample))
                                          ELSE @]
    /\ heap' = [heap EXCEPT ![1].drawn = @ + 1]
    /\ UNCHANGED <<pc, err, retval, statsVars, fmriVars, simVars, runVars>>

\* line 929, the loop being over
ExperimentsEnd ==
    /\ pc = "exp_loop"
    /\ frame.idx = frame.nb_of_experiments
    /\ pc' = "exp_done"
    /\ frame' = [frame EXCEPT !.out = Append(@, frame.effect_size)]
    /\ UNCHANGED <<err, heap, retval, statsVars, fmriVars, simVars, runVars>>

\* numbers of experiments in a run
MaxExperiments == 3

\* the state after lines 913-915, with small numbers for 16 and 20
InitExperiments ==
    /\ pc = "exp_ready"
    /\ err = "none"
    /\ \E k \in SampleSizes : \E nb \in 0..MaxExperiments :
          /\ frame = [sample_size |-> k, nb_of_experiments |-> nb]
          /\ \E stream \in [1..nb -> Rvs(k)] : heap = <<RandomState(Tup(stream))>>
    /\ retval = NotSet
    /\ Nexp = 0
    /\ prmtrs = NotSet
    /\ run = 1
    /\ first = NotSet
    /\ training_features = NotSet
    /\ test_features = NotSet
    /\ training_resp = NotSet
    /\ test_resp = NotSet
    /\ delays = NotSet
    /\ FmriUnset
    /\ SimUnset

NextExperiments == ExperimentsStart \/ ExperimentRound \/ ExperimentsEnd

SpecExperiments == InitExperiments /\ [][NextExperiments]_vars

-----------------------------------------------------------------------------
(* The split by talker (unnamed/part_000, lines 76-80, 302-307, 486-497) *)

\* the names bound so far with some more names bound
Bind(names, more) ==
    [x \in DOMAIN names \cup DOMAIN more |->
        IF x \in DOMAIN more THEN more[x] ELSE names[x]]

\* a dict as its items in insertion order; d[k] = v replaces the value of a
\* key that is there and adds the key at the end otherwise
SetItem(d, k, v) ==
    IF \E i \in 1..Len(d) : d[i][1] = k
    THEN Tup([i \in 1..Len(d) |-> IF d[i][1] = k THEN <<k, v>> ELSE d[i]])
    ELSE Append(d, <<k, v>>)

\* lines 78-80 , the first i rows done
RECURSIVE EventIdOf(_, _, _)
EventIdOf(ev_names, ev_nums, i) ==
    IF i = 0
    THEN <<>>
    ELSE SetItem(EventIdOf(ev_names, ev_nums, i - 1), ev_names[i], ev_nums[i])

\* np.unique of a column of integers: its values once each, ascending
RECURSIVE Ascending(_)
Ascending(S) ==
    IF S = {}
    THEN <<>>
    ELSE LET least == CHOOSE x \in S : \A y \in S : x <= y
         IN  <<least>> \o Ascending(S \ {least})

unique(column) == Ascending({column[i] : i \in 1..Len(column)})

\* v in a, for an array a
In(v, a) == \E i \in 1..Len(a) : a[i] = v

\* [v for v in list if v in a]
RECURSIVE Filter(_, _)
Filter(list, a) ==
    IF list = <<>>
    THEN <<>>
    ELSE IF In(Head(list), a)
         THEN <<Head(list)>> \o Filter(Tail(list), a)
         ELSE Filter(Tail(list), a)

\* lines 76-80: the stimulus list read column by column, then the dict
CellStimuli ==
    /\ pc = "stim_ready"
    /\ pc' = "stim_loaded"
    /\ LET ev_names == Tup([i \in 1..Len(frame.stim_file) |-> frame.stim_file[i][2]])
           ev_nums  == Tup([i \in 1..Len(frame.stim_file) |-> frame.stim_file[i][1]])
       IN  frame' = Bind(frame, [ev_names |-> ev_names,
                                 ev_nums  |-> ev_nums,
                                 event_id |-> EventIdOf(ev_names, ev_nums,
                                                        Len(ev_names))])
    /\ UNCHANGED <<err, heap, retval, statsVars, fmriVars, simVars, runVars>>

\* lines 302-307
CellEvents ==
    /\ pc = "stim_loaded"
    /\ pc' = "events_loaded"
    /\ LET events == frame.event_file
           column == Tup([i \in 1..Len(events) |-> events[i][3]])
       IN  frame' = Bind(frame, [events         |-> events,
                                 num_events     |-> Len(events),
                                 unique_stimuli |-> unique(column),
                                 num_unique     |-> Len(unique(column))])
    /\ UNCHANGED <<err, heap, retval, statsVars, fmriVars, simVars, runVars>>

\* lines 487-489: both lists empty, the loop at the first key
TalkerStart ==
    /\ pc = "events_loaded"
    /\ pc' = "talker_loop"
    /\ frame' = Bind(frame, [f_evs |-> <<>>, m_evs |-> <<>>, keys |-> 0])
    /\ UNCHANGED <<err, heap, retval, statsVars, fmriVars, simVars, runVars>>

\* a slip: else for elif, every name not starting with f counts as male
TalkerKey_else ==
    /\ pc = "talker_loop"
    /\ frame.keys < Len(frame.event_id)
    /\ LET k == frame.event_id[frame.keys + 1][1]
           v == frame.event_id[frame.keys + 1][2]
       IN  IF k = <<>>
           THEN /\ pc' = "error"
                /\ err' = "IndexError"
                /\ frame' = [frame EXCEPT !.keys = @ + 1]
           ELSE /\ frame' = IF k[1] = "f"
                            THEN [frame EXCEPT !.keys = @ + 1,
                                               !.f_evs = Append(@, v)]
                            ELSE [frame EXCEPT !.keys = @ + 1,
                                               !.m_evs = Append(@, v)]
                /\ UNCHANGED <<pc, err>>
    /\ UNCHANGED <<heap, retval, statsVars, fmriVars, simVars, runVars>>

\* lines 489-493: one key of event_id; frame.keys counts the keys done, and
\* k[0] of an empty name raises
TalkerKey ==
    /\ pc = "talker_loop"
    /\ frame.keys < Len(frame.event_id)
    /\ LET k == frame.event_id[frame.keys + 1][1]
           v == frame.event_id[frame.keys + 1][2]
       IN  IF k = <<>>
           THEN /\ pc' = "error"
                /\ err' = "IndexError"
                /\ frame' = [frame EXCEPT !.keys = @ + 1]
           ELSE /\ frame' = IF k[1] = "f"
                            THEN [frame EXCEPT !.keys = @ + 1,
                                               !.f_evs = Append(@, v)]
                            ELSE IF k[1] = "m"
                                 THEN [frame EXCEPT !.keys = @ + 1,
                                                    !.m_evs = Append(@, v)]
                                 ELSE [frame EXCEPT !.keys = @ + 1]
                /\ UNCHANGED <<pc, err>>
    /\ UNCHANGED <<heap, retval, statsVars, fmriVars, simVars, runVars>>

\* lines 495-497, the loop being over
TalkerFilter ==
    /\ pc = "talker_loop"
    /\ frame.keys = Len(frame.event_id)
    /\ pc' = "talkers_split"
    /\ frame' = Bind(frame,
                     [f_evs_new |-> Filter(frame.f_evs, frame.unique_stimuli),
                      m_evs_new |-> Filter(frame.m_evs, frame.unique_stimuli)])
    /\ UNCHANGED <<err, heap, retval, statsVars, fmriVars, simVars, runVars>>

\* rows of the stimulus list, and the event numbers in use
MaxStimuli == 2

\* names of sound files, letter by letter: two talkers, another sound, and
\* an empty field
StimulusNames == {<<"f", "a">>, <<"m", "a">>, <<"s", "a">>, <<>>}

\* numbers of loaded events
EventCounts == {0, 1, 2}

\* the two files before line 76: rows number, name of stimulus_list.csv and
\* rows start sample, end sample, event ID of the events file
InitTalker ==
    /\ pc = "stim_ready"
    /\ err = "none"
    /\ \E rows \in 0..MaxStimuli : \E count \in EventCounts :
       \E stim \in [1..rows -> (1..MaxStimuli) \X StimulusNames] :
       \E ids \in [1..count -> 1..MaxStimuli] :
          frame = [stim_file  |-> Tup(stim),
                   event_file |-> Tup([i \in 1..count |-> <<10 * i, 0, ids[i]>>])]
    /\ heap = NotSet
    /\ retval = NotSet
    /\ Nexp = 0
    /\ prmtrs = NotSet
    /\ run = 1
    /\ first = NotSet
    /\ training_features = NotSet
    /\ test_features = NotSet
    /\ training_resp = NotSet
    /\ test_resp = NotSet
    /\ delays = NotSet
    /\ FmriUnset
    /\ SimUnset

NextTalker == CellStimuli \/ CellEvents \/ TalkerStart \/ TalkerKey \/ TalkerFilter

SpecTalker == InitTalker /\ [][NextTalker]_vars

-----------------------------------------------------------------------------
(* The object version of fib (unnamed/part_001, lines 48-53 and 165-175) *)

RECURSIVE FibLoop(_, _, _, _)
\* lines 50-52: the rounds i, i+1, ... of the loop, from the running values
FibLoop(x, y, i, stop) ==
    IF i >= stop THEN x ELSE FibLoop(x + y, x, i + 1, stop)

\* lines 48-53
fib(k) == FibLoop(1, 1, 0, k)

\* lines 165-167: MyInt(k), a new object whose field int is k
MyInt(k) == [int |-> k]

\* a slip: a and b name one object, a = b = MyInt(1)
FibObjCall_aliased ==
    /\ pc = "fib_obj_ready"
    /\ heap' = Append(heap, MyInt(1))
    /\ frame' = [n |-> 1, a |-> Len(heap) + 1, b |-> Len(heap) + 1,
                 i |-> 0, stop |-> heap[1].int]
    /\ pc' = "fib_obj_loop"
    /\ UNCHANGED <<err, retval, statsVars, fmriVars, simVars, runVars>>

\* lines 170-172: n is bound to the argument, a and b to two new objects,
\* and range(n.int) is evaluated
FibObjCall ==
    /\ pc = "fib_obj_ready"
    /\ heap' = heap \o <<MyInt(1), MyInt(1)>>
    /\ frame' = [n |-> 1, a |-> Len(heap) + 1, b |-> Len(heap) + 2,
                 i |-> 0, stop |-> heap[1].int]
    /\ pc' = "fib_obj_loop"
    /\ UNCHANGED <<err, retval, statsVars, fmriVars, simVars, runVars>>

\* line 173: the right-hand sides are evaluated, then a.int is assigned,
\* then b.int
FibObjStep ==
    /\ pc = "fib_obj_loop"
    /\ frame.i < frame.stop
    /\ LET sum  == heap[frame.a].int + heap[frame.b].int
           old  == heap[frame.a].int
           heap1 == [heap EXCEPT ![frame.a].int = sum]
       IN  heap' = [heap1 EXCEPT ![frame.b].int = old]
    /\ frame' = [frame EXCEPT !.i = @ + 1]
    /\ UNCHANGED <<pc, err, retval, statsVars, fmriVars, simVars, runVars>>

\* line 175
FibObjReturn ==
    /\ pc = "fib_obj_loop"
    /\ frame.i = frame.stop
    /\ retval' = heap[frame.a].int
    /\ frame' = NotSet
    /\ pc' = "fib_obj_returned"
    /\ UNCHANGED <<err, heap, statsVars, fmriVars, simVars, runVars>>

\* largest argument of fib_obj
MaxFibArg == 12

\* the argument MyInt(k) is built, the call is about to start
InitFibObj ==
    /\ pc = "fib_obj_ready"
    /\ err = "none"
    /\ \E k \in 0..MaxFibArg : heap = <<MyInt(k)>>
    /\ frame = NotSet
    /\ retval = NotSet
    /\ run = 1
    /\ first = NotSet
    /\ Nexp = 0
    /\ prmtrs = NotSet
    /\ training_features = NotSet
    /\ test_features = NotSet
    /\ training_resp = NotSet
    /\ test_resp = NotSet
    /\ delays = NotSet
    /\ FmriUnset
    /\ SimUnset

NextFibObj == FibObjCall \/ FibObjStep \/ FibObjReturn

SpecFibObj == InitFibObj /\ [][NextFibObj]_vars

-----------------------------------------------------------------------------
(* fib, step by step (unnamed/part_001, lines 48-53) *)

\* line 49, the parameter n being bound; range(n) is evaluated
FibCall ==
    /\ pc = "fib_ready"
    /\ frame' = [n |-> frame.n, a |-> 1, b |-> 1, i |-> 0]
    /\ pc' = "fib_loop"
    /\ UNCHANGED <<err, heap, retval, statsVars, fmriVars, simVars, runVars>>

\* a slip: two assignments in a row, a = a+b and then b = a
FibStep_one_after_the_other ==
    /\ pc = "fib_loop"
    /\ frame.i < frame.n
    /\ frame' = [frame EXCEPT !.a = frame.a + frame.b,
                              !.b = frame.a + frame.b,
                              !.i = @ + 1]
    /\ UNCHANGED <<pc, err, heap, retval, statsVars, fmriVars, simVars, runVars>>

\* lines 50-51: one round, both right-hand sides evaluated before either
\* name is assigned
FibStep ==
    /\ pc = "fib_loop"
    /\ frame.i < frame.n
    /\ frame' = [frame EXCEPT !.a = frame.a + frame.b,
                              !.b = frame.a,
                              !.i = @ + 1]
    /\ UNCHANGED <<pc, err, heap, retval, statsVars, fmriVars, simVars, runVars>>

\* line 53, the loop being over; retval is the list of the values returned,
\* empty before the return
FibReturn ==
    /\ pc = "fib_loop"
    /\ frame.i >= frame.n
    /\ retval' = <<frame.a>>
    /\ frame' = NotSet
    /\ pc' = "fib_returned"
    /\ UNCHANGED <<err, heap, statsVars, fmriVars, simVars, runVars>>

\* the call fib(k) has bound its parameter (line 48)
InitFib ==
    /\ pc = "fib_ready"
    /\ err = "none"
    /\ \E k \in 0..MaxFibArg : frame = [n |-> k]
    /\ retval = NotSet
    /\ heap = NotSet
    /\ run = 1
    /\ first = NotSet
    /\ Nexp = 0
    /\ prmtrs = NotSet
    /\ training_features = NotSet
    /\ test_features = NotSet
    /\ training_resp = NotSet
    /\ test_resp = NotSet
    /\ delays = NotSet
    /\ FmriUnset
    /\ SimUnset

NextFib == FibCall \/ FibStep \/ FibReturn

\* the interpreter keeps running a call that can take a step
SpecFib == InitFib /\ [][NextFib]_vars /\ WF_vars(NextFib)

-----------------------------------------------------------------------------
(* Pairwise distances (unnamed/part_001, lines 239-240 and 334-344) *)

\* an n x p array: its shape and its rows (a shape with n = 0 or p = 0 has
\* no entries)
Array(n, p, rows) == [shape |-> <<n, p>>, data |-> rows]

\* np.sqrt(s) and s**0.5 for s >= 0
Sqrt(s) == Surd(QZero, 1, s)

\* ((xs[i,:] - xs[j,:])**2).sum(-1), rows counted from 1
SumSqDiff(xs, i, j) ==
    QSum(Tup([c \in 1..xs.shape[2] |->
                LET d == QSub(xs.data[i][c], xs.data[j][c]) IN QMul(d, d)]))

\* lines 239-240
pdist_numpy(xs) ==
    Tup([i \in 1..xs.shape[1] |->
           Tup([j \in 1..xs.shape[1] |-> Sqrt(SumSqDiff(xs, i, j))])])

\* np.empty((n, n)): whatever the memory held, here one value throughout
Empty(n, junk) == Tup([i \in 1..n |-> Tup([j \in 1..n |-> junk])])

\* what np.empty may hold
Junk == {Sqrt(QZero), Sqrt(QInt(49))}

\* lines 335-336; frame.i, frame.j and frame.k count the rounds begun of the
\* three loops, so the tutorial's i is frame.i - 1; frame.writes counts the
\* assignments to each entry of D
PdistCall ==
    /\ pc = "pdist_ready"
    /\ \E junk \in Junk :
          frame' = [xs |-> 1, n |-> heap[1].shape[1], p |-> heap[1].shape[2],
                    D |-> Empty(heap[1].shape[1], junk),
                    writes |-> Tup([i \in 1..heap[1].shape[1] |->
                                      Tup([j \in 1..heap[1].shape[1] |-> 0])]),
                    i |-> 0, j |-> 0, k |-> 0, s |-> QZero, at |-> "for_i"]
    /\ pc' = "pdist_loop"
    /\ UNCHANGED <<err, heap, retval, statsVars, fmriVars, simVars, runVars>>

\* line 337: the next row, or the end of the loop
PdistRow ==
    /\ pc = "pdist_loop"
    /\ frame.at = "for_i"
    /\ frame' = IF frame.i < frame.n
                 THEN [frame EXCEPT !.i = @ + 1, !.j = 0, !.at = "for_j"]
                 ELSE [frame EXCEPT !.at = "return"]
    /\ UNCHANGED <<pc, err, heap, retval, statsVars, fmriVars, simVars, runVars>>

\* a slip: the inner loop runs over range(i), the rows before row i
PdistPair_before_i ==
    /\ pc = "pdist_loop"
    /\ frame.at = "for_j"
    /\ frame' = IF frame.j < frame.i - 1
                 THEN [frame EXCEPT !.j = @ + 1, !.s = QZero, !.k = 0, !.at = "for_k"]
                 ELSE [frame EXCEPT !.at = "for_i"]
    /\ UNCHANGED <<pc, err, heap, retval, statsVars, fmriVars, simVars, runVars>>

\* lines 338-339: the next column with s = 0.0, or back to the rows
PdistPair ==
    /\ pc = "pdist_loop"
    /\ frame.at = "for_j"
    /\ frame' = IF frame.j < frame.n
                 THEN [frame EXCEPT !.j = @ + 1, !.s = QZero, !.k = 0, !.at = "for_k"]
                 ELSE [frame EXCEPT !.at = "for_i"]
    /\ UNCHANGED <<pc, err, heap, retval, statsVars, fmriVars, simVars, runVars>>

\* a slip: xs[j,0] is subtracted from every coordinate of row i
PdistTerm_first_coordinate ==
    /\ pc = "pdist_loop"
    /\ frame.at = "for_k"
    /\ \/ /\ frame.k < frame.p
          /\ \E tmp \in {QSub(heap[frame.xs].data[frame.i][frame.k + 1],
                                heap[frame.xs].data[frame.j][1])} :
                 \E sq \in {QMul(tmp, tmp)} :
                     frame' = [frame EXCEPT !.k = @ + 1, !.s = QAdd(@, sq)]
       \/ /\ frame.k >= frame.p
          /\ frame' = [frame EXCEPT !.at = "store"]
    /\ UNCHANGED <<pc, err, heap, retval, statsVars, fmriVars, simVars, runVars>>

\* lines 340-342: the next coordinate, or on to the assignment
PdistTerm ==
    /\ pc = "pdist_loop"
    /\ frame.at = "for_k"
    /\ \/ /\ frame.k < frame.p
          /\ \E tmp \in {QSub(heap[frame.xs].data[frame.i][frame.k + 1],
                                heap[frame.xs].data[frame.j][frame.k + 1])} :
                 \E sq \in {QMul(tmp, tmp)} :
                     frame' = [frame EXCEPT !.k = @ + 1, !.s = QAdd(@, sq)]
       \/ /\ frame.k >= frame.p
          /\ frame' = [frame EXCEPT !.at = "store"]
    /\ UNCHANGED <<pc, err, heap, retval, statsVars, fmriVars, simVars, runVars>>

\* a slip: the root is left out, D[i, j] = s
PdistStore_no_root ==
    /\ pc = "pdist_loop"
    /\ frame.at = "store"
    /\ frame' = [frame EXCEPT !.D[frame.i][frame.j] = Surd(frame.s, 0, QZero),
                              !.writes[frame.i][frame.j] = @ + 1,
                              !.at = "for_j"]
    /\ UNCHANGED <<pc, err, heap, retval, statsVars, fmriVars, simVars, runVars>>

\* line 343
PdistStore ==
    /\ pc = "pdist_loop"
    /\ frame.at = "store"
    /\ frame' = [frame EXCEPT !.D[frame.i][frame.j] = Sqrt(frame.s),
                              !.writes[frame.i][frame.j] = @ + 1,
                              !.at = "for_j"]
    /\ UNCHANGED <<pc, err, heap, retval, statsVars, fmriVars, simVars, runVars>>

\* line 344; retval keeps the count of assignments next to D
PdistReturn ==
    /\ pc = "pdist_loop"
    /\ frame.at = "return"
    /\ retval' = [D |-> frame.D, writes |-> frame.writes]
    /\ frame' = NotSet
    /\ pc' = "pdist_returned"
    /\ UNCHANGED <<err, heap, statsVars, fmriVars, simVars, runVars>>

\* largest number of points
MaxPoints == 2

\* numbers of coordinates of a point
Dimensions == {0, 1, 2}

Coordinates == {-1, 0, 1}

\* the argument, an n x p array, is built; the call is about to start
InitPdist ==
    /\ pc = "pdist_ready"
    /\ err = "none"
    /\ \E n \in 0..MaxPoints, p \in Dimensions :
          \E rows \in Mat(n, p, Coordinates) :
              heap = <<Array(n, p, ToQ(rows))>>
    /\ frame = NotSet
    /\ retval = NotSet
    /\ run = 1
    /\ first = NotSet
    /\ Nexp = 0
    /\ prmtrs = NotSet
    /\ training_features = NotSet
    /\ test_features = NotSet
    /\ training_resp = NotSet
    /\ test_resp = NotSet
    /\ delays = NotSet
    /\ FmriUnset
    /\ SimUnset

NextPdist ==
    PdistCall \/ PdistRow \/ PdistPair \/ PdistTerm \/ PdistStore \/ PdistReturn

\* the interpreter keeps running a call that can take a step
SpecPdist == InitPdist /\ [][NextPdist]_vars /\ WF_vars(NextPdist)

-----------------------------------------------------------------------------
(* The delay embedding (SpecDelay) *)

\* block i of row t of a delayed matrix with F features per block
BlockRow(out, t, i, F) == SubSeq(out[t], (i - 1) * F + 1, i * F)

\* t counts rows from 0, as the tutorial does
BlocksShifted(out, stim, ds) ==
    /\ Rows(out) = Rows(stim)
    /\ \A i \in 1..Len(ds) : \A t \in 0..(Rows(stim) - 1) :
          /\ Len(out[t + 1]) >= i * Cols(stim)
          /\ BlockRow(out, t + 1, i, Cols(stim)) =
                IF t >= ds[i] THEN stim[t - ds[i] + 1] ELSE ZeroRow(Cols(stim))

\* C1: in the matrix make_delayed returns, block i holds at every row
\* t >= d_i the stimulus row t - d_i, and at every row t < d_i zeros only.
C1_BlocksAreShiftedCopies ==
    pc = "delayed" =>
        /\ BlocksShifted(del_training_features, training_features, delays)
        /\ BlocksShifted(del_test_features, test_features, delays)

\* a delay strictly inside the matrix, on a stimulus with two features whose
\* shifted rows are not all zero
C1_Witness ==
    /\ pc = "delayed"
    /\ Cols(training_features) = 2
    /\ \E i \in 1..Len(delays) :
          /\ delays[i] > 0
          /\ delays[i] < Rows(training_features)
          /\ training_features[1] # ZeroRow(2)
          /\ BlockRow(del_training_features, 1 + delays[i], i, 2) = training_features[1]

\* C2: make_delayed returns as many rows as the stimulus has, each of
\* F * k entries, k the length of the delay list.
C2_ShapeIsTByFk ==
    pc = "delayed" =>
        /\ Rows(del_training_features) = Rows(training_features)
        /\ Rows(del_test_features) = Rows(test_features)
        /\ \A t \in 1..Rows(del_training_features) :
              Len(del_training_features[t]) = Cols(training_features) * Len(delays)
        /\ \A t \in 1..Rows(del_test_features) :
              Len(del_test_features[t]) = Cols(test_features) * Len(delays)

\* two features, two delays (the same delay twice counts twice)
C2_Witness ==
    /\ pc = "delayed"
    /\ Cols(training_features) = 2
    /\ Len(delays) = 2
    /\ delays[1] = delays[2]
    /\ Cols(del_test_features) = 4

\* column f of stim, delayed by d
ShiftedColumn(stim, f, d) ==
    [t \in 1..Rows(stim) |-> IF t > d THEN stim[t - d][f] ELSE 0]

\* column (i-1)*F + f of out is feature f at the i-th delay of the list
LayoutFollowsList(out, stim, ds) ==
    \A i \in 1..Len(ds) : \A f \in 1..Cols(stim) :
        Column(out, (i - 1) * Cols(stim) + f) = ShiftedColumn(stim, f, ds[i])

\* C3: the i-th block belongs to the i-th delay of the list as written, in
\* the training call and in the test call alike, so a column index means the
\* same (delay, feature) pair in both matrices.
C3_BlockOrderIsListOrder ==
    pc = "delayed" =>
        /\ LayoutFollowsList(del_training_features, training_features, delays)
        /\ LayoutFollowsList(del_test_features, test_features, delays)
        /\ Cols(del_training_features) = Cols(del_test_features)

\* a list out of order and with a gap, on matrices of different length whose
\* two blocks differ
C3_Witness ==
    /\ pc = "delayed"
    /\ delays = <<2, 0>>
    /\ Rows(del_training_features) # Rows(del_test_features)
    /\ Column(del_test_features, 1) # Column(del_test_features, 1 + Cols(test_features))
    /\ Column(del_training_features, 1) # Column(del_training_features, 1 + Cols(training_features))

-----------------------------------------------------------------------------
(* The least-squares fit of the simulated regression (SpecSim) *)

\* X'X b = X'y for the 1-D weights b and the 1-D response y
NormalEquation(X, b, y) ==
    MatMul(Gram(X), AsColumn(b)) = MatMul(Transpose(X), AsColumn(y))

\* C4: for a design matrix of full column rank, the weights the
\* least-squares solve returns satisfy the normal equation X'X beta = X'Y.
C4_NormalEquationHolds ==
    (pc = "estimated" /\ FullColumnRank(ToQ(X_train))) =>
        /\ Len(beta_estimate_2) = Cols(X_train)
        /\ NormalEquation(ToQ(X_train), beta_estimate_2, VecToQ(Y_train))

\* a noisy fit of two features whose weights are neither whole numbers nor
\* the true ones
C4_Witness ==
    /\ pc = "estimated"
    /\ Cols(X_train) = 2
    /\ FullColumnRank(ToQ(X_train))
    /\ noise_size # 0
    /\ beta_estimate_2 # VecToQ(beta_true)
    /\ \E k \in 1..2 : beta_estimate_2[k][2] # 1

\* C5: without noise (Y = X beta_true) and with a design matrix of full
\* column rank, the least-squares solve returns beta_true.
C5_ZeroNoiseRecoversBeta ==
    (pc = "estimated" /\ noise_size = 0 /\ FullColumnRank(ToQ(X_train))) =>
        beta_estimate_2 = VecToQ(beta_true)

\* a noise-free fit of two features with two different true weights
C5_Witness ==
    /\ pc = "estimated"
    /\ noise_size = 0
    /\ Cols(X_train) = 2
    /\ FullColumnRank(ToQ(X_train))
    /\ beta_true[1] # beta_true[2]
    /\ beta_estimate_2 = VecToQ(beta_true)

-----------------------------------------------------------------------------
(* The least-squares fit of the fMRI part (SpecFit) *)

\* the sum of squared residuals of the 1-D weights b
Resid(X, b, y) ==
    LET r == Tup([t \in 1..Rows(X) |-> QSub(y[t], QDot(X[t], b))])
    IN  QDot(r, r)

Norm2(b) == QDot(b, b)

\* weight vectors the returned one is compared with
Candidates(P) == Vec(P, {QInt(-1), QZero, Q(1, 2), QInt(1)})

\* b minimises the residual (it solves the normal equation, and no candidate
\* does better), and no candidate with the same residual is shorter; b is
\* orthogonal to every candidate the design matrix maps to zero
MinimumNormSolution(X, b, y) ==
    LET rb == Resid(X, b, y)
        nb == Norm2(b)
    IN  /\ NormalEquation(X, b, y)
        /\ \A c \in Candidates(Cols(X)) :
              LET rc == Resid(X, c, y)
                  Xc == MatMul(X, AsColumn(c))
              IN  /\ QLeq(rb, rc)
                  /\ rc = rb => QLeq(nb, Norm2(c))
                  /\ Xc = QZeros(Rows(X), 1) => QDot(b, c) = QZero

\* C6: on a rank-deficient design matrix the least-squares solve does not
\* fail, and for every voxel it returns weights of minimal residual that are
\* the shortest among the weights of minimal residual.
C6_RankDeficientMinimumNorm ==
    (/\ pc # "delayed"
     /\ Rows(del_training_features) = Rows(training_resp)
     /\ ~FullColumnRank(ToQ(del_training_features))) =>
        /\ pc = "fit"
        /\ err = "none"
        /\ Rows(beta_ols) = Cols(del_training_features)
        /\ LET X == ToQ(del_training_features)
               Y == ToQ(training_resp)
           IN  \A v \in 1..Cols(training_resp) :
                  MinimumNormSolution(X, Column(beta_ols, v), Column(Y, v))

\* a design matrix with the same non-zero column twice, fitted to a response
\* that is not zero: the weight is shared between the two columns
C6_Witness ==
    /\ pc = "fit"
    /\ delays = <<1, 1>>
    /\ Rank(ToQ(del_training_features)) = 1
    /\ beta_ols[1][1] # QZero
    /\ beta_ols[1][1] = beta_ols[2][1]

-----------------------------------------------------------------------------
(* Shape errors in the fMRI pipeline (Spec) *)

FitRan == pc \in {"fit", "evaluated", "error"}

TestRan == pc = "evaluated" \/ (pc = "error" /\ beta_ols # NotSet)

\* C7: a fit whose two arguments differ in their row counts, and a
\* prediction whose test matrix has another column count than the weights
\* have rows, end in an error and leave no weights or prediction; neither
\* call makes the shapes agree by dropping or adding rows or columns.
C7_ShapeMismatchRaises ==
    /\ (FitRan /\ Rows(del_training_features) # Rows(training_resp)) =>
          /\ pc = "error"
          /\ err = "LinAlgError"
          /\ beta_ols = NotSet
          /\ pred_test_resp = NotSet
          /\ test_correlations = NotSet
    /\ (TestRan /\ Cols(del_test_features) # Rows(beta_ols)) =>
          /\ pc = "error"
          /\ err = "ValueError"
          /\ pred_test_resp = NotSet
          /\ test_correlations = NotSet
    /\ beta_ols # NotSet =>
          /\ Rows(del_training_features) = Rows(training_resp)
          /\ Rows(beta_ols) = Cols(del_training_features)
          /\ Cols(beta_ols) = Cols(training_resp)
    /\ pred_test_resp # NotSet =>
          /\ Cols(del_test_features) = Rows(beta_ols)
          /\ Rows(pred_test_resp) = Rows(del_test_features)
    /\ pc = "error" =>
          \/ Rows(del_training_features) # Rows(training_resp)
          \/ Cols(del_test_features) # Rows(beta_ols)

\* the fit succeeded and the prediction raised: the test stimulus has two
\* features, the training stimulus one
C7_Witness ==
    /\ pc = "error"
    /\ err = "ValueError"
    /\ beta_ols # NotSet
    /\ Cols(test_features) = 2
    /\ Cols(training_features) = 1

-----------------------------------------------------------------------------
(* The correlation of each voxel (SpecEval) *)

IsConstant(x) == \A i \in 1..Len(x) : x[i] = x[1]

Negated(x) == Tup([i \in 1..Len(x) |-> QNeg(x[i])])

C9_SelfAndNegation ==
    pc = "evaluated" =>
        \A v \in 1..Cols(test_resp) :
            LET c == Column(ToQ(test_resp), v)
                p == Column(pred_test_resp, v)
            IN  ~IsConstant(c) =>
                   /\ p = c => test_correlations[v] = Corr(1, QOne)
                   /\ p = Negated(c) => test_correlations[v] = Corr(-1, QOne)

\* the first voxel is predicted exactly, the second with the sign flipped
C9_Witness ==
    /\ pc = "evaluated"
    /\ Cols(test_resp) = 2
    /\ ~IsConstant(Column(test_resp, 1))
    /\ ~IsConstant(Column(test_resp, 2))
    /\ Column(pred_test_resp, 1) = Column(ToQ(test_resp), 1)
    /\ Column(pred_test_resp, 2) = Negated(Column(ToQ(test_resp), 2))
    /\ test_correlations = <<Corr(1, QOne), Corr(-1, QOne)>>

\* c is Pearson's r of x and y by the sums formula:
\* r = (n Sxy - Sx Sy) / sqrt((n Sxx - Sx^2)(n Syy - Sy^2))
IsPearson(c, x, y) ==
    LET n   == QInt(Len(x))
        cov == QSub(QMul(n, QDot(x, y)), QMul(QSum(x), QSum(y)))
        vx  == QSub(QMul(n, QDot(x, x)), QMul(QSum(x), QSum(x)))
        vy  == QSub(QMul(n, QDot(y, y)), QMul(QSum(y), QSum(y)))
    IN  IF QMul(vx, vy) = QZero THEN c.nan
        ELSE /\ ~c.nan
             /\ c.sgn = QSign(cov)
             /\ QMul(c.sq, QMul(vx, vy)) = QMul(cov, cov)

\* C10: the evaluation returns one value per voxel, and the value of voxel v
\* is Pearson's correlation of column v of the held-out responses with
\* column v of the prediction.
C10_OneCorrelationPerVoxel ==
    pc = "evaluated" =>
        /\ Len(test_correlations) = Cols(test_resp)
        /\ Rows(pred_test_resp) = Rows(test_resp)
        /\ Cols(pred_test_resp) = Cols(test_resp)
        /\ \A v \in 1..Cols(test_resp) :
              IsPearson(test_correlations[v], Column(ToQ(test_resp), v),
                        Column(pred_test_resp, v))

\* two voxels with different correlations, neither of them +-1, where the
\* crosswise pairing would give another value
C10_Witness ==
    /\ pc = "evaluated"
    /\ Cols(test_resp) = 2
    /\ test_correlations[1] = Corr(1, Q(1, 4))
    /\ test_correlations[2] = Corr(-1, Q(1, 4))
    /\ corrcoef01(Column(ToQ(test_resp), 1), Column(pred_test_resp, 2)) # test_correlations[1]

-----------------------------------------------------------------------------
\* C11: the prediction del_test_features.dot(beta_ols) has exactly as many
\* rows as the held-out design has time points and exactly as many columns
\* as the weights have voxels, whatever T_test, P and V are.
C11_PredictionShape ==
    pc = "evaluated" =>
        /\ Rows(pred_test_resp) = Rows(del_test_features)
        /\ \A t \in 1..Rows(pred_test_resp) :
              Len(pred_test_resp[t]) = Cols(beta_ols)

\* one time point, three predictors, two voxels
C11_Witness ==
    /\ pc = "evaluated"
    /\ Rows(del_test_features) = 1
    /\ Cols(del_test_features) = 3
    /\ Cols(beta_ols) = 2
    /\ Rows(pred_test_resp) = 1
    /\ Cols(pred_test_resp) = 2

-----------------------------------------------------------------------------
\* C12: fitting a delayed design of T rows and P = F * len(delays) columns
\* to responses of T rows and V columns gives weights of exactly P rows and
\* V columns.
C12_WeightShape ==
    pc = "fit" =>
        /\ Rows(beta_ols) = Cols(training_features) * Len(delays)
        /\ Rows(beta_ols) = Cols(del_training_features)
        /\ \A i \in 1..Rows(beta_ols) : Len(beta_ols[i]) = Cols(training_resp)

\* two features at two delays, one voxel: four rows of one weight
C12_Witness ==
    /\ pc = "fit"
    /\ Cols(training_features) = 2
    /\ Len(delays) = 2
    /\ Cols(training_resp) = 1
    /\ Rows(beta_ols) = 4
    /\ Cols(beta_ols) = 1

-----------------------------------------------------------------------------
\* the weights of voxel v alone: the fit of column v of the responses
SolvedAlone(v) ==
    Column(lstsq(ToQ(del_training_features),
                 AsColumn(Column(ToQ(training_resp), v))).x, 1)

\* C16: one solve for all V response columns gives, column by column, the
\* weights that solving each column on its own gives: column v of beta_ols
\* depends on column v of the responses only.
C16_ColumnsSolvedIndependently ==
    pc = "fit" =>
        \A v \in 1..Cols(training_resp) : Column(beta_ols, v) = SolvedAlone(v)

\* two voxels whose weights differ
C16_Witness ==
    /\ pc = "fit"
    /\ Cols(training_resp) = 2
    /\ Column(beta_ols, 1) # Column(beta_ols, 2)
    /\ Column(beta_ols, 2) = SolvedAlone(2)

-----------------------------------------------------------------------------
-----------------------------------------------------------------------------
\* C14: make_delayed does not modify the matrix it is given: across the cell
\* that calls it, every entry of training_features and of test_features is
\* what it was before the call, for every delay list, delay 0 included.
C14_InputsUntouched ==
    [][pc = "loaded" /\ pc' = "delayed" =>
          /\ training_features' = training_features
          /\ test_features' = test_features]_vars

\* after a call with delay 0 and a later delay: the first block is the
\* input, which still holds its words
C14_Witness ==
    /\ pc = "delayed"
    /\ delays = <<0, 1>>
    /\ \E t \in 1..Rows(training_features) : training_features[t][1] = 1
    /\ \A t \in 1..Rows(training_features) :
          BlockRow(del_training_features, t, 1, Cols(training_features))
              = training_features[t]

-----------------------------------------------------------------------------
\* every row of every block of out is all zero, or is the row of stim that
\* lies d_i time points earlier
AlignedOrZero(out, stim, ds) ==
    /\ Rows(out) = Rows(stim)
    /\ \A t \in 1..Rows(stim) : Len(out[t]) = Cols(stim) * Len(ds)
    /\ \A i \in 1..Len(ds) : \A t \in 1..Rows(stim) :
          LET row == BlockRow(out, t, i, Cols(stim))
          IN  \/ row = ZeroRow(Cols(stim))
              \/ /\ t - ds[i] \in 1..Rows(stim)
                 /\ row = stim[t - ds[i]]

-----------------------------------------------------------------------------
\* held-out designs to predict on: two time points
HeldOutDesigns(p) == Mat(2, p, Bits)

\* the prediction of line 197 with weights w
Predict(X_test, w) == dot(ToQ(X_test), AsColumn(w)).x

\* C18: when the design matrix has full column rank, the explicit
\* normal-equations estimate inv(X'X) X'Y and the library least-squares
\* estimate are the same weights, and so give the same predictions on any
\* held-out design matrix.
C18_InverseAgreesWithLstsq ==
    /\ FullColumnRank(ToQ(X_train)) /\ pc = "estimated_1" => beta_estimate_1 # NotSet
    /\ FullColumnRank(ToQ(X_train)) /\ pc = "estimated" /\ beta_estimate_1 # NotSet =>
          /\ beta_estimate_1 = beta_estimate_2
          /\ \A X_test \in HeldOutDesigns(Len(beta_true)) :
                Predict(X_test, beta_estimate_1) = Predict(X_test, beta_estimate_2)
    /\ FullColumnRank(ToQ(X_train)) => pc # "error"

\* two independent features, noisy responses, both estimates made, and the
\* weights are not the true ones
C18_Witness ==
    /\ pc = "estimated"
    /\ Len(beta_true) = 2
    /\ FullColumnRank(ToQ(X_train))
    /\ noise_size # 0
    /\ beta_estimate_1 # NotSet
    /\ beta_estimate_1 = beta_estimate_2
    /\ beta_estimate_1 # VecToQ(beta_true)

-----------------------------------------------------------------------------
\* the weights as a function of the training data and the delay list alone
WeightsOf(stim, ds, resp) == lstsq(ToQ(make_delayed(stim, ds)), ToQ(resp)).x

TrainingOnly ==
    beta_ols # NotSet => beta_ols = WeightsOf(training_features, delays, training_resp)

\* C19 as stated: the weights are a function of the training features and
\* responses only, and nothing is computed from the held-out data before the
\* fit has produced beta_ols.
C19_TestDataUntouchedBeforeFit ==
    /\ TrainingOnly
    /\ del_test_features # NotSet \/ pred_test_resp # NotSet
          \/ test_correlations # NotSet => beta_ols # NotSet

\* C19, amended: the weights are a function of the training features, the
\* delay list and the training responses only, whatever the held-out data
\* are; the held-out features are delay-embedded before the fit (line 331),
\* and the held-out responses and the prediction from the held-out features
\* come into play only once beta_ols exists.
C19_WeightsFromTrainingOnly ==
    /\ TrainingOnly
    /\ pred_test_resp # NotSet \/ test_correlations # NotSet => beta_ols # NotSet
    /\ pc = "delayed" => del_test_features # NotSet /\ beta_ols = NotSet

\* weights that are not all zero, and a prediction from the held-out
\* features that is not all zero either
C19_Witness ==
    /\ pc = "evaluated"
    /\ \E i \in 1..Rows(beta_ols) : beta_ols[i][1] # QZero
    /\ \E t \in 1..Rows(pred_test_resp) : pred_test_resp[t][1] # QZero
    /\ beta_ols = WeightsOf(training_features, delays, training_resp)

-----------------------------------------------------------------------------
\* C17: confidence_intervals(Nexp, CI, n, mu, sigma, alpha) returns the
\* arrays effect, detect, lCI and uCI with exactly Nexp entries each, and
\* detect[i] is set exactly when the t statistic of experiment i exceeds the
\* alpha-level threshold t_alph.
C17_ArraysOfNexpAndDetection ==
    pc = "ci_returned" =>
        /\ Len(retval.effect) = Nexp
        /\ Len(retval.detect) = Nexp
        /\ Len(retval.lCI) = Nexp
        /\ Len(retval.uCI) = Nexp
        /\ \A i \in 1..Nexp :
              /\ retval.detect[i] \in BOOLEAN
              /\ retval.detect[i] <=>
                    Exceeds(retval.t[i], isf(prmtrs.n - 1, prmtrs.alpha))

\* two experiments of three samples at alpha = 0.05: the first detects the
\* effect with a t of 4, between the two thresholds, the second does not
C17_Witness ==
    /\ pc = "ci_returned"
    /\ Nexp = 2
    /\ prmtrs.n = 3
    /\ prmtrs.alpha = Q(1, 20)
    /\ retval.t[1] = Finite(1, QInt(16))
    /\ retval.detect = <<TRUE, FALSE>>

-----------------------------------------------------------------------------
\* C20: fib_obj(MyInt(n)), which keeps its running values in the fields of
\* two MyInt objects, returns the integer fib(n) returns, for every n >= 0,
\* and leaves the field int of its argument as it was.
C20_FibObjAgreesWithFib ==
    /\ [](pc = "fib_obj_returned" => retval = fib(heap[1].int))
    /\ [][heap'[1] = heap[1]]_vars

\* the call with 5 has returned 13, and the argument still holds 5
C20_Witness ==
    /\ pc = "fib_obj_returned"
    /\ heap[1] = MyInt(5)
    /\ retval = 13
    /\ heap[2].int = 13
    /\ heap[3].int = 8

-----------------------------------------------------------------------------
\* block i of out is stim itself, row for row
BlockIsInput(out, stim, i) ==
    /\ Rows(out) = Rows(stim)
    /\ \A t \in 1..Rows(stim) :
          /\ Len(out[t]) >= i * Cols(stim)
          /\ BlockRow(out, t, i, Cols(stim)) = stim[t]

\* C22: when the delay list contains 0, the block of make_delayed's output
\* at that position is the input matrix itself, row for row: no row is
\* zero-filled and none is dropped.
C22_ZeroDelayBlockIsInput ==
    pc = "delayed" =>
        \A i \in 1..Len(delays) :
            delays[i] = 0 =>
                /\ BlockIsInput(del_training_features, training_features, i)
                /\ BlockIsInput(del_test_features, test_features, i)

\* delay 0 in second place, after a delay of 2: the second block holds the
\* words of the input, the first of them at the first time point
C22_Witness ==
    /\ pc = "delayed"
    /\ delays = <<2, 0>>
    /\ training_features[1][1] = 1
    /\ BlockIsInput(del_training_features, training_features, 2)
    /\ BlockRow(del_training_features, 1, 1, Cols(training_features))
          = ZeroRow(Cols(training_features))

-----------------------------------------------------------------------------
\* row t of the delayed matrix, written from the rows t-1, ..., t-4 of stim
\* alone (zero where stim has not begun)
FromEarlierRows(stim, t) ==
    Flatten([i \in 1..4 |-> IF t - i >= 1 THEN stim[t - i] ELSE ZeroRow(Cols(stim))])

DelayedFromEarlierRows(out, stim) ==
    /\ Rows(out) = Rows(stim)
    /\ out[1] = ZeroRow(4 * Cols(stim))
    /\ \A t \in 1..Rows(stim) : out[t] = FromEarlierRows(stim, t)

\* weight matrices of P rows to predict with
SomeWeights(P) == UNION {ShapedWeights(P, V) : V \in VoxelCounts}

\* C23: with the tutorial's delays [1,2,3,4] the first row of the delayed
\* matrix (row 0 of the tutorial) is all zero for every input, so the
\* predicted response at the first test time point is the zero vector for
\* every weight matrix; and row t of the delayed matrix is made of the
\* input rows t-4..t-1 and of nothing else.
C23_FirstRowZeroAndCausal ==
    (delays = TutorialDelays /\ pc \in {"delayed", "fit", "evaluated"}) =>
        /\ DelayedFromEarlierRows(del_training_features, training_features)
        /\ DelayedFromEarlierRows(del_test_features, test_features)
        /\ \A w \in SomeWeights(Cols(del_test_features)) :
              \A v \in 1..Cols(w) : dot(ToQ(del_test_features), w).x[1][v] = QZero
        /\ pc = "evaluated" =>
              \A v \in 1..Cols(beta_ols) : pred_test_resp[1][v] = QZero

\* the held-out stimulus starts with a word, the fitted weights are not all
\* zero, and the prediction is zero at the first time point and not at the
\* second
C23_Witness ==
    /\ pc = "evaluated"
    /\ delays = TutorialDelays
    /\ test_features[1][1] = 1
    /\ pred_test_resp[1][1] = QZero
    /\ pred_test_resp[2][1] # QZero
    /\ del_test_features[MaxT + 3] = FromEarlierRows(test_features, MaxT + 3)
    /\ test_features[MaxT - 2] # test_features[MaxT + 2]

-----------------------------------------------------------------------------
RECURSIVE FibRec(_)
\* the sequence 1, 2, 3, 5, 8, ... by its recurrence
FibRec(k) == IF k = 0 THEN 1 ELSE IF k = 1 THEN 2 ELSE FibRec(k - 1) + FibRec(k - 2)

\* C24: fib(n) ends after exactly n rounds of its loop, for every n >= 0,
\* and returns the value given by fib(0) = 1, fib(1) = 2,
\* fib(n+2) = fib(n+1) + fib(n); after each round b holds the value a had
\* before that round.
C24_FibRoundsAndRecurrence ==
    /\ [](pc = "fib_loop" => frame.i <= frame.n /\ frame.a = FibRec(frame.i))
    /\ [][pc = "fib_loop" /\ pc' = "fib_loop" =>
             frame'.i = frame.i + 1 /\ frame'.b = frame.a]_vars
    /\ [][pc = "fib_loop" /\ pc' = "fib_returned" =>
             frame.i = frame.n /\ retval' = <<FibRec(frame.n)>>]_vars
    /\ <>(pc = "fib_returned")

\* five rounds of fib(5) are done: a is 13 and b is the 8 that a was before
C24_Witness ==
    /\ pc = "fib_loop"
    /\ frame.n = 5
    /\ frame.i = 5
    /\ frame.a = 13
    /\ frame.b = 8

-----------------------------------------------------------------------------
RECURSIVE EuclidSq(_, _, _)
\* the sum over the first c coordinates of (x[k] - y[k])^2
EuclidSq(x, y, c) ==
    IF c = 0 THEN QZero
    ELSE QAdd(EuclidSq(x, y, c - 1),
              QMul(QSub(x[c], y[c]), QSub(x[c], y[c])))

\* D is n x n
IsSquare(D, n) == Len(D) = n /\ \A i \in 1..n : Len(D[i]) = n

\* C21: pdist_python(xs) computes what pdist_numpy(xs) computes: for every
\* n x p input both results are n x n, and entry (i, j) of both is the
\* Euclidean distance of rows i and j of xs, the square root of the sum over
\* k of (xs[i,k] - xs[j,k])^2.
C21_PythonAgreesWithNumpy ==
    pc = "pdist_returned" =>
        LET xs == heap[1]
            n  == xs.shape[1]
        IN  /\ IsSquare(retval.D, n)
            /\ IsSquare(pdist_numpy(xs), n)
            /\ retval.D = pdist_numpy(xs)
            /\ \A i \in 1..n : \A j \in 1..n :
                  /\ retval.D[i][j].mid = QZero
                  /\ retval.D[i][j].sgn >= 0
                  /\ retval.D[i][j].sq
                        = EuclidSq(xs.data[i], xs.data[j], xs.shape[2])

\* the points (-1, 0) and (1, 1): their distance is the root of 5
C21_Witness ==
    /\ pc = "pdist_returned"
    /\ heap[1].data = <<<<QInt(-1), QZero>>, <<QOne, QOne>>>>
    /\ retval.D[1][2] = Sqrt(QInt(5))
    /\ pdist_numpy(heap[1])[1][2] = Sqrt(QInt(5))

-----------------------------------------------------------------------------
\* C25: pdist_python ends for every n x p input, n = 0 and p = 0 included,
\* and when it returns each of the n * n entries of D has been assigned
\* exactly once by the loops, so nothing np.empty left in D is returned.
C25_EveryEntryAssignedOnce ==
    /\ [](pc = "pdist_loop" =>
             \A i \in 1..frame.n : \A j \in 1..frame.n : frame.writes[i][j] <= 1)
    /\ [](pc = "pdist_returned" =>
             /\ IsSquare(retval.writes, heap[1].shape[1])
             /\ \A i \in 1..heap[1].shape[1] : \A j \in 1..heap[1].shape[1] :
                   retval.writes[i][j] = 1)
    /\ <>(pc = "pdist_returned")

\* two points without coordinates: four entries, each assigned once, all 0
C25_Witness ==
    /\ pc = "pdist_returned"
    /\ heap[1].shape = <<2, 0>>
    /\ retval.writes = <<<<1, 1>>, <<1, 1>>>>
    /\ \A i \in 1..2 : \A j \in 1..2 : retval.D[i][j] = Sqrt(QZero)

-----------------------------------------------------------------------------
\* C26: the matrix pdist_python returns is symmetric, has a zero diagonal
\* and no negative entry: D[i][i] = 0 and D[i][j] = D[j][i] >= 0 for all
\* rows i, j.
C26_SymmetricZeroDiagonal ==
    pc = "pdist_returned" =>
        \A i \in 1..Len(retval.D) :
            /\ retval.D[i][i] = Sqrt(QZero)
            /\ \A j \in 1..Len(retval.D) :
                  /\ retval.D[i][j] = retval.D[j][i]
                  /\ retval.D[i][j].mid = QZero
                  /\ retval.D[i][j].sgn >= 0
                  /\ QLeq(QZero, retval.D[i][j].sq)

\* two different points of two coordinates that differ from each other
C26_Witness ==
    /\ pc = "pdist_returned"
    /\ heap[1].shape = <<2, 2>>
    /\ heap[1].data[1][1] # heap[1].data[1][2]
    /\ retval.D[1][2] # Sqrt(QZero)
    /\ retval.D[1][2] = retval.D[2][1]
    /\ retval.D[1][1] = Sqrt(QZero)

-----------------------------------------------------------------------------
\* C28: when confidence_intervals is called with 0 <= CI < 1, every returned
\* interval contains the estimated effect and is centred on it: lCI[i] lies
\* as far below effect[i] as uCI[i] lies above it.
C28_IntervalCentredOnEffect ==
    [][(pc = "ci_loop" /\ pc' = "ci_returned"
          /\ QLeq(QZero, frame.CI) /\ ~QLeq(QOne, frame.CI))
       => \A i \in 1..Nexp :
             /\ retval'.lCI[i].mid = retval'.effect[i]
             /\ retval'.uCI[i].mid = retval'.effect[i]
             /\ retval'.lCI[i].sq = retval'.uCI[i].sq
             /\ retval'.uCI[i].sgn >= 0
             /\ retval'.lCI[i].sgn = 0 - retval'.uCI[i].sgn]_vars

\* two experiments returned, the first with a proper interval around a
\* non-zero effect
C28_Witness ==
    /\ pc = "ci_returned"
    /\ Nexp = 2
    /\ retval.effect[1] # QZero
    /\ retval.uCI[1].sgn = 1
    /\ retval.lCI[1].sgn = -1
    /\ retval.uCI[1].mid = retval.effect[1]

-----------------------------------------------------------------------------
\* the means of the samples whose p-value is at most a, in the samples' order
RECURSIVE SignificantMeans(_, _, _)
SignificantMeans(samples, df, a) ==
    IF samples = <<>>
    THEN <<>>
    ELSE LET rest == SignificantMeans(SubSeq(samples, 1, Len(samples) - 1), df, a)
             last == samples[Len(samples)]
         IN  IF PLeq(sf(t_value_from_sample(last), df), a)
             THEN Append(rest, Mean(last))
             ELSE rest

\* C27: in the repeated-experiments loop effect_size holds exactly the means
\* of the experiments run so far whose p-value is <= alpha, in the order they
\* ran - so after the last round those of all nb_of_experiments - it is never
\* longer than the number of rounds done, and a round with p-value > alpha
\* adds nothing.
C27_EffectSizeIsSignificantMeans ==
    pc \in {"exp_loop", "exp_done"} =>
        /\ frame.idx = heap[1].drawn
        /\ Len(frame.effect_size) <= frame.idx
        /\ frame.effect_size
             = SignificantMeans(SubSeq(heap[1].stream, 1, frame.idx),
                                frame.sample_size - 1, frame.alpha)
        /\ pc = "exp_done" => frame.idx = frame.nb_of_experiments

\* three experiments of three values: (2,1,1) is significant with mean 4/3,
\* (3,1,1) is not, (3,2,2) is significant with mean 7/3
C27_Witness ==
    /\ pc = "exp_done"
    /\ frame.nb_of_experiments = 3
    /\ heap[1].stream = <<<<QInt(2), QOne, QOne>>,
                          <<QInt(3), QOne, QOne>>,
                          <<QInt(3), QInt(2), QInt(2)>>>>
    /\ frame.effect_size = <<Q(4, 3), Q(7, 3)>>

-----------------------------------------------------------------------------
\* v is the number of a row of the stimulus list whose name starts with c
NumberOfTalker(v, c) ==
    \E i \in 1..Len(frame.ev_nums) :
        /\ frame.ev_nums[i] = v
        /\ frame.ev_names[i] # <<>>
        /\ frame.ev_names[i][1] = c

\* v is the ID of a loaded event
Occurs(v) == \E i \in 1..Len(frame.events) : frame.events[i][3] = v

\* what is said of the two lists: f_evs_new holds IDs of f-stimuli that occur,
\* m_evs_new IDs of m-stimuli that occur, no ID is in both, and the ID of a
\* stimulus that starts with neither letter is in neither
SplitByTalker ==
    /\ \A n \in 1..Len(frame.f_evs_new) :
          NumberOfTalker(frame.f_evs_new[n], "f") /\ Occurs(frame.f_evs_new[n])
    /\ \A n \in 1..Len(frame.m_evs_new) :
          NumberOfTalker(frame.m_evs_new[n], "m") /\ Occurs(frame.m_evs_new[n])
    /\ \A v \in 1..MaxStimuli :
          ~(In(v, frame.f_evs_new) /\ In(v, frame.m_evs_new))
    /\ \A i \in 1..Len(frame.ev_nums) :
          frame.ev_names[i][1] \notin {"f", "m"}
             => /\ ~In(frame.ev_nums[i], frame.f_evs_new)
                /\ ~In(frame.ev_nums[i], frame.m_evs_new)

OneNamePerNumber ==
    \A i, j \in 1..Len(frame.ev_nums) :
        frame.ev_nums[i] = frame.ev_nums[j] => frame.ev_names[i] = frame.ev_names[j]

=============================================================================
